---- MODULE Spec2Model ----
(***************************************************************************)
(* A model of lupaxa.certtool: configuration resolution (config.py), the   *)
(* certificate pipeline and its output placement (certs.py) and the mode   *)
(* processors of the command line (cli.py).                                *)
(*                                                                         *)
(* Python strings are sequences of one-character strings, so that lower(), *)
(* upper(), strip() and slugify() are computed and not assumed.  Python    *)
(* values are records tagged with their type, dictionaries are functions   *)
(* whose domain is the set of keys present.                                *)
(***************************************************************************)
EXTENDS Integers, Sequences, FiniteSets, TLC

(***************************************************************************)
(* Bounds of the model.                                                    *)
(***************************************************************************)
\* The most interior dashes a generated digest spelling holds.
MaxDashes == 1
\* The most configuration files a batch directory holds.
MaxFiles == 3
\* The number of concurrent directory-mode invocations of the race model.
NumInvocations == 2
\* The most calls of the library one process of the object model makes.
MaxCalls == 3
\* The longest string slugify is applied to.
MaxSlugLen == 3

(***************************************************************************)
(* Characters and strings.                                                 *)
(***************************************************************************)
UpperLetters == <<"A","B","C","D","E","F","G","H","I","J","K","L","M",
                  "N","O","P","Q","R","S","T","U","V","W","X","Y","Z">>
LowerLetters == <<"a","b","c","d","e","f","g","h","i","j","k","l","m",
                  "n","o","p","q","r","s","t","u","v","w","x","y","z">>
DigitChars == <<"0","1","2","3","4","5","6","7","8","9">>

Range(s) == {s[i] : i \in DOMAIN s}

IndexIn(c, tbl) == CHOOSE i \in DOMAIN tbl : tbl[i] = c

\* str.isspace / str.isalnum / str.isdigit on one character
IsSpace(c) == c \in {" ", "\t", "\n"}
IsDigit(c) == c \in Range(DigitChars)
\* Letters of category Lu that have no lower-case form, such as U+2102
\* (DOUBLE-STRUCK CAPITAL C): str.isalnum() and str.isupper() are true of
\* them and str.lower() returns them as they are.  A character outside ASCII is
\* written by its code point.
CapitalsWithoutLower == {"U+2102"}
IsAlnum(c) == c \in Range(UpperLetters) \cup Range(LowerLetters) \cup Range(DigitChars)
                      \cup CapitalsWithoutLower
\* str.isupper on one character
IsUpper(c) == c \in Range(UpperLetters) \cup CapitalsWithoutLower

LowerChar(c) == IF c \in Range(UpperLetters) THEN LowerLetters[IndexIn(c, UpperLetters)] ELSE c
UpperChar(c) == IF c \in Range(LowerLetters) THEN UpperLetters[IndexIn(c, LowerLetters)] ELSE c

\* str.lower() and str.upper()
PyLower(s) == [i \in 1..Len(s) |-> LowerChar(s[i])]
PyUpper(s) == [i \in 1..Len(s) |-> UpperChar(s[i])]

RECURSIVE LStripSet(_, _)
LStripSet(s, cs) == IF s # <<>> /\ Head(s) \in cs THEN LStripSet(Tail(s), cs) ELSE s

RECURSIVE RStripSet(_, _)
RStripSet(s, cs) ==
    IF s # <<>> /\ s[Len(s)] \in cs THEN RStripSet(SubSeq(s, 1, Len(s) - 1), cs) ELSE s

\* str.strip(chars)
StripSet(s, cs) == RStripSet(LStripSet(s, cs), cs)
\* str.strip()
PyStrip(s) == StripSet(s, {" ", "\t", "\n"})

RECURSIVE DigitsValue(_)
DigitsValue(s) ==
    IF s = <<>> THEN 0
    ELSE 10 * DigitsValue(SubSeq(s, 1, Len(s) - 1)) + (IndexIn(s[Len(s)], DigitChars) - 1)

RECURSIVE DigitsOf(_)
\* the decimal digits of a natural number, as str(n) / f"{n}" writes them
DigitsOf(n) ==
    IF n < 10 THEN <<DigitChars[n + 1]>>
    ELSE DigitsOf(n \div 10) \o <<DigitChars[(n % 10) + 1]>>

(***************************************************************************)
(* Python values.                                                          *)
(***************************************************************************)
PyStr(s)  == [t |-> "str", v |-> s]
PyInt(n)  == [t |-> "int", v |-> n]
PyBool(b) == [t |-> "bool", v |-> b]
PyList(l) == [t |-> "list", v |-> l]
PyDict(d) == [t |-> "dict", v |-> d]
PyNone    == [t |-> "NoneType"]
\* a float with one decimal place, held in tenths: PyFloat(5) is 0.5
PyFloat(tenths) == [t |-> "float", v |-> tenths]

EmptyDict == [k \in {} |-> PyNone]

\* a pathlib.Path, with what the file system holds under it
PyPath(at) == [t |-> "path", at |-> at]

\* bool(x)
Truthy(x) ==
    CASE x.t = "str"  -> x.v # <<>>
      [] x.t = "int"  -> x.v # 0
      [] x.t = "float" -> x.v # 0
      [] x.t = "bool" -> x.v
      [] x.t = "list" -> x.v # <<>>
      [] x.t = "dict" -> DOMAIN x.v # {}
      [] x.t = "path" -> TRUE
      [] OTHER        -> FALSE

\* str(x): the text of a value
StrOf(x) ==
    CASE x.t = "str"  -> x.v
      [] x.t = "int"  -> IF x.v < 0 THEN <<"-">> \o DigitsOf(-x.v) ELSE DigitsOf(x.v)
      [] x.t = "float" -> (IF x.v < 0 THEN <<"-">> ELSE <<>>)
                          \o LET a == IF x.v < 0 THEN -x.v ELSE x.v
                             IN  DigitsOf(a \div 10) \o <<".">> \o DigitsOf(a % 10)
      [] x.t = "bool" -> IF x.v THEN <<"T","r","u","e">> ELSE <<"F","a","l","s","e">>
      [] x.t = "list" -> <<"[","]">>
      [] x.t = "dict" -> <<"{","}">>
      [] OTHER        -> <<"N","o","n","e">>

\* dict.get(k, default) and dict.update(e)
Get(d, k, default) == IF k \in DOMAIN d THEN d[k] ELSE default
\* d.setdefault(k, e[k]) for every key of e: what d holds stays
UpdateKeepOld(d, e) == [k \in DOMAIN d \cup DOMAIN e |-> IF k \in DOMAIN d THEN d[k] ELSE e[k]]
Update(d, e) == [k \in DOMAIN d \cup DOMAIN e |-> IF k \in DOMAIN e THEN e[k] ELSE d[k]]
Put(d, k, x) == [j \in DOMAIN d \cup {k} |-> IF j = k THEN x ELSE d[j]]

(***************************************************************************)
(* Results of a call: a returned value or a raised exception.  `arg` is     *)
(* the value the exception's message interpolates.                         *)
(***************************************************************************)
Ok(x) == [st |-> "ok", val |-> x]
Raise(kind, msg, arg) == [st |-> "raise", exc |-> kind, msg |-> msg, arg |-> arg]

\* F applied to the value of e: the value is computed once, as an assignment
\* to a local variable computes it.
With(e, F(_)) == CHOOSE y \in {F(x) : x \in {e}} : TRUE

\* exceptions.py: ConfigError, GenerationError and OutputError derive from CertToolError
CertToolErrors == {"CertToolError", "ConfigError", "GenerationError", "OutputError"}
IsCertToolError(r) == r.st = "raise" /\ r.exc \in CertToolErrors

\* int(x)
PyIntOf(x) ==
    CASE x.t = "int"  -> Ok(x.v)
      [] x.t = "float" -> Ok(IF x.v < 0 THEN -((-x.v) \div 10) ELSE x.v \div 10)
      [] x.t = "bool" -> Ok(IF x.v THEN 1 ELSE 0)
      [] x.t = "str"  ->
            LET s == PyStrip(x.v)
                neg == s # <<>> /\ Head(s) = "-"
                body == IF s # <<>> /\ Head(s) \in {"-", "+"} THEN Tail(s) ELSE s
            IN  IF body # <<>> /\ \A i \in DOMAIN body : IsDigit(body[i])
                THEN Ok(IF neg THEN -DigitsValue(body) ELSE DigitsValue(body))
                ELSE Raise("ValueError", "invalid literal for int()", x)
      [] OTHER        -> Raise("TypeError", "int() argument must be a string or a number", x)

(***************************************************************************)
(* utils.py: the shared constants.                                         *)
(***************************************************************************)
DN_KEYS == <<"countryName", "stateOrProvinceName", "localityName", "organizationName",
             "organizationalUnitName", "commonName", "emailAddress">>

sha256 == <<"s","h","a","2","5","6">>
sha384 == <<"s","h","a","3","8","4">>
sha512 == <<"s","h","a","5","1","2">>
RSA == <<"R","S","A">>

CONFIG_DEFAULT ==
    [digest_alg        |-> PyStr(sha512),
     private_key_bits  |-> PyInt(2048),
     private_key_type  |-> PyStr(RSA),
     encrypt_key       |-> PyBool(FALSE),
     valid_days        |-> PyInt(365),
     subject_alt_names |-> PyList(<<>>)]

(***************************************************************************)
(* config.py                                                               *)
(***************************************************************************)
\* a validation that does not strip the common name
validate_dn_no_strip(dn) ==
    IF DOMAIN dn = {} \/ ~Truthy(Get(dn, "commonName", PyNone))
    THEN Raise("ConfigError", "DN is missing 'commonName'", "commonName")
    ELSE Ok(PyNone)

validate_dn(dn) ==
    IF DOMAIN dn = {}
    THEN Raise("ConfigError", "DN is empty. You must supply DN attributes (at least 'commonName')",
               "commonName")
    ELSE LET cn == Get(dn, "commonName", PyNone)
         IN  IF ~Truthy(cn) \/ PyStrip(StrOf(cn)) = <<>>
             THEN Raise("ConfigError", "DN is missing 'commonName'", "commonName")
             ELSE Ok(PyNone)

\* cfg.get("private_key_type", "").upper() != "RSA", as the three call sites write it
KeyTypeCheck(cfg) ==
    LET kt == Get(cfg, "private_key_type", PyStr(<<>>))
    IN  IF kt.t # "str"
        THEN Raise("AttributeError", "object has no attribute 'upper'", kt)
        ELSE IF PyUpper(kt.v) # RSA
             THEN Raise("ConfigError", "Unsupported private_key_type; only 'RSA' is supported",
                        Get(cfg, "private_key_type", PyNone))
             ELSE Ok(PyNone)

merge_settings_json(json_dn, json_cfg) ==
    With(IF Truthy(json_dn) THEN Update(EmptyDict, json_dn.v) ELSE EmptyDict, LAMBDA dn :
    With(IF Truthy(json_cfg) THEN Update(CONFIG_DEFAULT, json_cfg.v) ELSE CONFIG_DEFAULT,
         LAMBDA cfg0 :
    With(PyIntOf(cfg0["private_key_bits"]), LAMBDA bits :
    With(PyIntOf(cfg0["valid_days"]), LAMBDA days :
        IF bits.st = "raise" THEN bits
        ELSE IF days.st = "raise" THEN days
        ELSE With([cfg0 EXCEPT !["private_key_bits"] = PyInt(bits.val),
                               !["valid_days"] = PyInt(days.val)], LAMBDA cfg :
             With(KeyTypeCheck(cfg), LAMBDA checked :
             With(validate_dn(dn), LAMBDA valid :
                 IF checked.st = "raise" THEN checked
                 ELSE IF valid.st = "raise" THEN valid
                 ELSE Ok([dn |-> dn, cfg |-> cfg]))))))))

(***************************************************************************)
(* certs.py: names, digests, key, CSR and certificate.                     *)
(***************************************************************************)
ALLOWED_DIGESTS == [k \in {sha256, sha384, sha512} |->
                      CASE k = sha256 -> "SHA256" [] k = sha384 -> "SHA384" [] OTHER -> "SHA512"]

\* the attributes in the alphabetical order of their keys
NameOrderByKey == <<[key |-> "commonName",             oid |-> "COMMON_NAME"],
                    [key |-> "countryName",            oid |-> "COUNTRY_NAME"],
                    [key |-> "emailAddress",           oid |-> "EMAIL_ADDRESS"],
                    [key |-> "localityName",           oid |-> "LOCALITY_NAME"],
                    [key |-> "organizationName",       oid |-> "ORGANIZATION_NAME"],
                    [key |-> "organizationalUnitName", oid |-> "ORGANIZATIONAL_UNIT_NAME"],
                    [key |-> "stateOrProvinceName",    oid |-> "STATE_OR_PROVINCE_NAME"]>>

\* The attribute a DN key becomes, in the order build_x509_name appends them.
NameOrder == <<[key |-> "countryName",            oid |-> "COUNTRY_NAME"],
               [key |-> "stateOrProvinceName",    oid |-> "STATE_OR_PROVINCE_NAME"],
               [key |-> "localityName",           oid |-> "LOCALITY_NAME"],
               [key |-> "organizationName",       oid |-> "ORGANIZATION_NAME"],
               [key |-> "organizationalUnitName", oid |-> "ORGANIZATIONAL_UNIT_NAME"],
               [key |-> "commonName",             oid |-> "COMMON_NAME"],
               [key |-> "emailAddress",           oid |-> "EMAIL_ADDRESS"]>>

\* x509.NameAttribute accepts only str values (TypeError otherwise).
build_x509_name(dn) ==
    LET Present(e) == Truthy(Get(dn, e.key, PyNone))
        kept == SelectSeq(NameOrder, Present)
        attrs == [i \in 1..Len(kept) |-> [oid |-> kept[i].oid, value |-> dn[kept[i].key]]]
    IN  IF \E i \in 1..Len(attrs) : attrs[i].value.t # "str"
        THEN Raise("TypeError", "value argument must be a str", "NameAttribute")
        ELSE Ok(attrs)

get_digest(digest_name) ==
    IF digest_name.t # "str"
    THEN Raise("AttributeError", "object has no attribute 'lower'", digest_name)
    ELSE LET key == PyLower(digest_name.v)
         IN  IF key \in DOMAIN ALLOWED_DIGESTS
             THEN Ok(ALLOWED_DIGESTS[key])
             ELSE Raise("ConfigError", "Unsupported digest", key)

\* rsa.generate_private_key refuses key sizes below 1024 bits (ValueError) and
\* sizes that are not integers (TypeError); either is wrapped.  `id` tells the
\* keys of different calls apart.
generate_key_pair(bits, id) ==
    IF bits.t # "int" \/ bits.v < 1024
    THEN Raise("GenerationError", "Failed to generate RSA key", bits)
    ELSE Ok([id |-> id, bits |-> bits.v])

\* a CSR step whose handler wraps every exception, CertToolError included
generate_csr_wrapping_all(private_key, subject, digest_alg) ==
    With(get_digest(digest_alg), LAMBDA d :
        IF d.st = "raise"
        THEN Raise("GenerationError", "Failed to generate CSR", d.exc)
        ELSE Ok([subject |-> subject, key |-> private_key.id, digest |-> d.val]))

generate_csr(private_key, subject, digest_alg) ==
    With(get_digest(digest_alg), LAMBDA d :
        IF d.st = "raise"
        THEN IF IsCertToolError(d) THEN d
             ELSE Raise("GenerationError", "Failed to generate CSR", d.exc)
        ELSE Ok([subject |-> subject, key |-> private_key.id, digest |-> d.val]))

\* the entries taken last to first
SanEntriesReversed(x) ==
    IF x.t = "str" THEN [i \in DOMAIN x.v |-> PyStr(<<x.v[Len(x.v) + 1 - i]>>)]
    ELSE [i \in DOMAIN x.v |-> x.v[Len(x.v) + 1 - i]]

\* for name in subject_alt_names: the entries of a list, the characters of a
\* string (mappings are not among the values modelled)
SanEntries(x) == IF x.t = "str" THEN [i \in DOMAIN x.v |-> PyStr(<<x.v[i]>>)] ELSE x.v

\* The builder refuses a validity that ends before it starts (ValueError), a
\* valid_days that is no integer, a SAN value that cannot be iterated and a
\* SAN entry that is no str (TypeError).
generate_self_signed_cert(private_key, subject, digest_alg, valid_days, subject_alt_names) ==
    With(get_digest(digest_alg), LAMBDA d :
    With(Truthy(subject_alt_names), LAMBDA hasSan :
    With(\/ valid_days.t # "int"
         \/ valid_days.v < 0
         \/ hasSan /\ subject_alt_names.t \notin {"list", "str"}
         \/ hasSan /\ subject_alt_names.t = "list"
                   /\ \E i \in DOMAIN subject_alt_names.v : subject_alt_names.v[i].t # "str",
         LAMBDA libFails :
        IF libFails
        THEN Raise("GenerationError", "Failed to generate self-signed certificate", valid_days)
        ELSE IF d.st = "raise"
        THEN IF IsCertToolError(d) THEN d
             ELSE Raise("GenerationError", "Failed to generate self-signed certificate", d.exc)
        ELSE Ok([subject |-> subject, issuer |-> subject, key |-> private_key.id,
                 digest |-> d.val, valid_days |-> valid_days.v,
                 basic_constraints |-> [ca |-> TRUE, critical |-> TRUE],
                 san |-> IF hasSan
                         THEN [present |-> TRUE, critical |-> FALSE,
                               dns |-> [i \in DOMAIN SanEntries(subject_alt_names) |->
                                          SanEntries(subject_alt_names)[i].v]]
                         ELSE [present |-> FALSE, critical |-> FALSE, dns |-> <<>>]]))))

(***************************************************************************)
(* A call of the pipeline returns its result and the events it performed,  *)
(* in order: "keygen", "sign_csr", "sign_cert", "encode_key", ...          *)
(***************************************************************************)
Done(res, ev) == [res |-> res, ev |-> ev]

create_cert_components(dn, cfg, id) ==
    With(build_x509_name(dn), LAMBDA subject :
        IF subject.st = "raise" THEN Done(subject, <<>>)
        ELSE IF "private_key_bits" \notin DOMAIN cfg
        THEN Done(Raise("KeyError", "private_key_bits", "private_key_bits"), <<>>)
        ELSE
    With(generate_key_pair(cfg["private_key_bits"], id), LAMBDA key :
        IF key.st = "raise" THEN Done(key, <<"keygen">>)
        ELSE IF "digest_alg" \notin DOMAIN cfg
        THEN Done(Raise("KeyError", "digest_alg", "digest_alg"), <<"keygen">>)
        ELSE
    With(generate_csr(key.val, subject.val, cfg["digest_alg"]), LAMBDA csr :
        IF csr.st = "raise" THEN Done(csr, <<"keygen">>)
        ELSE IF "valid_days" \notin DOMAIN cfg
        THEN Done(Raise("KeyError", "valid_days", "valid_days"), <<"keygen", "sign_csr">>)
        ELSE
    With(IF Truthy(Get(cfg, "subject_alt_names", PyNone))
         THEN cfg["subject_alt_names"] ELSE PyNone, LAMBDA sans :
    With(generate_self_signed_cert(key.val, subject.val, cfg["digest_alg"],
                                   cfg["valid_days"], sans), LAMBDA crt :
        IF crt.st = "raise" THEN Done(crt, <<"keygen", "sign_csr">>)
        ELSE Done(Ok([private_key |-> key.val, csr |-> csr.val, cert |-> crt.val]),
                  <<"keygen", "sign_csr", "sign_cert">>))))))

\* a serialization that encrypts the key whenever a passphrase is at hand
serialize_encrypting_when_possible(components, encrypt_key, passphrase) ==
    IF encrypt_key /\ ~Truthy(passphrase)
    THEN Done(Raise("ConfigError", "encrypt_key is true but no passphrase was provided",
                    "passphrase"), <<>>)
    ELSE Done(Ok([certificate_pem |-> [pem |-> "CERTIFICATE", obj |-> components.cert,
                                       password |-> PyNone],
                  csr_pem         |-> [pem |-> "CERTIFICATE REQUEST", obj |-> components.csr,
                                       password |-> PyNone],
                  private_key_pem |-> [pem |-> "PRIVATE KEY", obj |-> components.private_key,
                                       password |-> IF Truthy(passphrase) THEN passphrase
                                                    ELSE PyNone]]),
              <<"encode_key", "encode_csr", "encode_cert">>)

\* a serialization that falls back to an unencrypted key when no passphrase is given
serialize_without_passphrase(components, encrypt_key, passphrase) ==
    Done(Ok([certificate_pem |-> [pem |-> "CERTIFICATE", obj |-> components.cert,
                                  password |-> PyNone],
             csr_pem         |-> [pem |-> "CERTIFICATE REQUEST", obj |-> components.csr,
                                  password |-> PyNone],
             private_key_pem |-> [pem |-> "PRIVATE KEY", obj |-> components.private_key,
                                  password |-> IF encrypt_key /\ Truthy(passphrase)
                                               THEN passphrase ELSE PyNone]]),
         <<"encode_key", "encode_csr", "encode_cert">>)

serialize_cert_components(components, encrypt_key, passphrase) ==
    IF encrypt_key /\ ~Truthy(passphrase)
    THEN Done(Raise("ConfigError", "encrypt_key is true but no passphrase was provided",
                    "passphrase"), <<>>)
    ELSE IF encrypt_key /\ passphrase.t # "str"
    THEN Done(Raise("AttributeError", "object has no attribute 'encode'", passphrase), <<>>)
    ELSE Done(Ok([certificate_pem |-> [pem |-> "CERTIFICATE", obj |-> components.cert,
                                       password |-> PyNone],
                  csr_pem         |-> [pem |-> "CERTIFICATE REQUEST", obj |-> components.csr,
                                       password |-> PyNone],
                  private_key_pem |-> [pem |-> "PRIVATE KEY", obj |-> components.private_key,
                                       password |-> IF encrypt_key THEN passphrase
                                                    ELSE PyNone]]),
              <<"encode_key", "encode_csr", "encode_cert">>)

\* load_pem_private_key(data, password), as the tests use it to read a key
\* back: an unencrypted key loads with no password only, an encrypted key with
\* the password it was encrypted under only.
load_pem_private_key(data, password) ==
    IF data.pem # "PRIVATE KEY"
    THEN Raise("ValueError", "Could not deserialize key data", data.pem)
    ELSE IF data.password = PyNone
    THEN IF password = PyNone THEN Ok(data.obj)
         ELSE Raise("TypeError", "Password was given but private key is not encrypted", password)
    ELSE IF password = PyNone
    THEN Raise("TypeError", "Password was not given but private key is encrypted", password)
    ELSE IF password = data.password THEN Ok(data.obj)
    ELSE Raise("ValueError", "Bad decrypt. Incorrect password?", password)

(***************************************************************************)
(* certs.py: naming and output.  The output root is a function from the    *)
(* names of its entries to the files each directory holds.                 *)
(***************************************************************************)
cert == <<"c","e","r","t">>

\* a slug that keeps the punctuation at its two ends
slugify_keeping_edges(value) ==
    LET Kept(ch) == IsAlnum(ch) \/ ch \in {".", "-", "_"} \/ IsSpace(ch)
    IN  With(PyLower(PyStrip(value)), LAMBDA v :
        With(SelectSeq(v, Kept), LAMBDA kept :
        With([i \in 1..Len(kept) |-> IF IsSpace(kept[i]) THEN "_" ELSE kept[i]], LAMBDA slug :
            IF slug = <<>> THEN cert ELSE slug)))
slugify(value) ==
    LET Kept(ch) == IsAlnum(ch) \/ ch \in {".", "-", "_"} \/ IsSpace(ch)
    IN  With(PyLower(PyStrip(value)), LAMBDA v :
        With(SelectSeq(v, Kept), LAMBDA kept :
        With([i \in 1..Len(kept) |-> IF IsAlnum(kept[i]) \/ kept[i] \in {".", "-", "_"}
                                     THEN kept[i] ELSE "_"], LAMBDA chars :
        With(StripSet(chars, {".", "_", "-"}), LAMBDA slug :
            IF v = <<>> THEN cert
            ELSE IF slug = <<>> THEN cert ELSE slug))))

\* Path(label).stem: the name without its last suffix
Stem(name) ==
    LET dots == {i \in DOMAIN name : name[i] = "."}
        last == CHOOSE i \in dots : \A j \in dots : j <= i
    IN  IF dots # {} /\ 1 < last /\ last < Len(name) THEN SubSeq(name, 1, last - 1) ELSE name

\* base_output_dir / base_name and base_output_dir / f"{base_name}-{counter}"
DirName(base_name, counter) ==
    IF counter = 0 THEN base_name ELSE base_name \o <<"-">> \o DigitsOf(counter)

BaseName(dn, label) ==
    LET cnv == Get(dn, "commonName", PyNone)
        cn == PyStrip(StrOf(IF Truthy(cnv) THEN cnv ELSE PyStr(<<>>)))
    IN  IF cn # <<>> THEN slugify(cn)
        ELSE IF Truthy(label) THEN slugify(Stem(label.v))
        ELSE cert

\* candidate.exists()
Exists(fs, name) == name \in DOMAIN fs

\* candidate.mkdir(parents=True, exist_ok=True): an existing directory is taken over
candidate_mkdir_exist_ok(fs, name, fault) ==
    IF fault = "mkdir"
    THEN [res |-> Raise("OutputError", "Unable to create directory", name), fs |-> fs]
    ELSE [res |-> Ok(name), fs |-> [n \in DOMAIN fs \cup {name} |->
                                       IF n \in DOMAIN fs THEN fs[n] ELSE EmptyDict]]

\* candidate.mkdir(parents=True, exist_ok=False): refused when the name exists
\* (FileExistsError) or when the platform refuses (`fault`); both are OSError.
candidate_mkdir(fs, name, fault) ==
    IF fault = "mkdir" \/ Exists(fs, name)
    THEN [res |-> Raise("OutputError", "Unable to create directory", name), fs |-> fs]
    ELSE [res |-> Ok(name), fs |-> [n \in DOMAIN fs \cup {name} |->
                                       IF n = name THEN EmptyDict ELSE fs[n]]]

RECURSIVE SuffixLoopFromNext(_, _, _)
\* a loop that increments the counter before it tests the first candidate
SuffixLoopFromNext(fs, base_name, counter) ==
    IF ~Exists(fs, DirName(base_name, counter + 1)) THEN counter + 1
    ELSE SuffixLoopFromNext(fs, base_name, counter + 1)

RECURSIVE SuffixLoopByTwo(_, _, _)
\* a loop that advances the counter by two after a candidate that exists
SuffixLoopByTwo(fs, base_name, counter) ==
    IF ~Exists(fs, DirName(base_name, counter)) THEN counter
    ELSE SuffixLoopByTwo(fs, base_name, counter + 2)

RECURSIVE LoopPasses(_, _, _)
\* the passes through the body of the while loop, the returning one included
LoopPasses(fs, base_name, counter) ==
    IF ~Exists(fs, DirName(base_name, counter)) THEN 1
    ELSE 1 + LoopPasses(fs, base_name, counter + 1)
RECURSIVE SuffixLoop(_, _, _)
\* the while loop: the first counter whose candidate does not exist
SuffixLoop(fs, base_name, counter) ==
    IF ~Exists(fs, DirName(base_name, counter)) THEN counter
    ELSE SuffixLoop(fs, base_name, counter + 1)

\* a naming that takes the base name's directory over when it exists
make_cert_subdir_reusing(fs, dn, label, fault) ==
    candidate_mkdir_exist_ok(fs, BaseName(dn, label), fault)
make_cert_subdir(fs, dn, label, fault) ==
    With(BaseName(dn, label), LAMBDA base_name :
        IF ~Exists(fs, base_name)
        THEN candidate_mkdir(fs, base_name, fault)
        ELSE With(DirName(base_name, SuffixLoop(fs, base_name, 1)), LAMBDA candidate :
                 candidate_mkdir(fs, candidate, fault)))

write_bundle_to_stdout(bundle, label, out) ==
    out \o (IF Truthy(label) THEN <<[line |-> "CONFIG", text |-> label]>> ELSE <<>>)
        \o <<[line |-> "# Self-signed certificate (PEM)", text |-> bundle.certificate_pem],
             [line |-> "# Certificate Signing Request (CSR, PEM)", text |-> bundle.csr_pem],
             [line |-> "# Private Key (PEM)", text |-> bundle.private_key_pem]>>

PemFiles == <<"cert.pem", "csr.pem", "key.pem">>

\* a placement that leaves the private key out
WriteFilesNoKey(fs, subdir, bundle, fault) ==
    [res |-> Ok(PyNone),
     fs  |-> [fs EXCEPT ![subdir] = [f \in {"cert.pem", "csr.pem"} |->
                                       IF f = "cert.pem" THEN bundle.certificate_pem
                                       ELSE bundle.csr_pem]]]

\* Path.write_bytes of the n-th file: refused at open ("write<n>"), or failing
\* after the file was created ("trunc<n>").
WriteFiles(fs, subdir, bundle, fault) ==
    LET data == <<bundle.certificate_pem, bundle.csr_pem, bundle.private_key_pem>>
        stop == CASE fault \in {"write1", "trunc1"} -> 1
                  [] fault \in {"write2", "trunc2"} -> 2
                  [] fault \in {"write3", "trunc3"} -> 3
                  [] OTHER -> 4
        whole == {PemFiles[i] : i \in 1..(stop - 1)}
        cut == IF fault \in {"trunc1", "trunc2", "trunc3"} THEN {PemFiles[stop]} ELSE {}
        files == [f \in whole \cup cut |->
                    IF f \in cut THEN [pem |-> "TRUNCATED", obj |-> PyNone, password |-> PyNone]
                    ELSE data[IndexIn(f, PemFiles)]]
    IN  [res |-> IF stop = 4 THEN Ok(PyNone)
                 ELSE Raise("OutputError", "Failed to write PEM files", subdir),
         fs |-> [fs EXCEPT ![subdir] = files]]

write_bundle_to_dir(bundle, dn, label, fs, fault) ==
    With(make_cert_subdir(fs, dn, label, fault), LAMBDA made :
        IF made.res.st = "raise" THEN made
        ELSE WriteFiles(made.fs, made.res.val, bundle, fault))

\* The world a request acts on: the output root, what was printed, and the
\* number of calls of the key generator so far.
\* a handler that makes the subdirectory before it generates anything
handle_single_cert_dir_first(dn, cfg, label, out_dir, w, fault) ==
    With(IF out_dir = "stdout" THEN w.fs ELSE make_cert_subdir(w.fs, dn, label, "none").fs,
         LAMBDA fs0 :
    With(create_cert_components(dn, cfg, w.gen + 1), LAMBDA made :
    With(IF made.ev # <<>> THEN w.gen + 1 ELSE w.gen, LAMBDA gen :
        IF made.res.st = "raise"
        THEN [res |-> made.res, ev |-> made.ev, fs |-> fs0, out |-> w.out, gen |-> gen]
        ELSE
    With(serialize_cert_components(made.res.val, Truthy(Get(cfg, "encrypt_key", PyNone)),
                                   Get(cfg, "passphrase", PyNone)), LAMBDA pems :
        IF pems.res.st = "raise"
        THEN [res |-> pems.res, ev |-> made.ev \o pems.ev, fs |-> fs0, out |-> w.out,
              gen |-> gen]
        ELSE IF out_dir = "stdout"
        THEN [res |-> Ok(PyNone), ev |-> made.ev \o pems.ev \o <<"print">>, fs |-> w.fs,
              out |-> write_bundle_to_stdout(pems.res.val, label, w.out), gen |-> gen]
        ELSE
    With(write_bundle_to_dir(pems.res.val, dn, label, w.fs, fault), LAMBDA placed :
        [res |-> placed.res, ev |-> made.ev \o pems.ev \o <<"place">>, fs |-> placed.fs,
         out |-> w.out, gen |-> gen])))))
handle_single_cert(dn, cfg, label, output_dir, w, fault) ==
    With(create_cert_components(dn, cfg, w.gen + 1), LAMBDA made :
    With(IF made.ev # <<>> THEN w.gen + 1 ELSE w.gen, LAMBDA gen :
        IF made.res.st = "raise"
        THEN [res |-> made.res, ev |-> made.ev, fs |-> w.fs, out |-> w.out, gen |-> gen]
        ELSE
    With(serialize_cert_components(made.res.val, Truthy(Get(cfg, "encrypt_key", PyNone)),
                                   Get(cfg, "passphrase", PyNone)), LAMBDA pems :
        IF pems.res.st = "raise"
        THEN [res |-> pems.res, ev |-> made.ev \o pems.ev, fs |-> w.fs, out |-> w.out,
              gen |-> gen]
        ELSE IF output_dir = "stdout"
        THEN [res |-> Ok(PyNone), ev |-> made.ev \o pems.ev \o <<"print">>, fs |-> w.fs,
              out |-> write_bundle_to_stdout(pems.res.val, label, w.out), gen |-> gen]
        ELSE
    With(write_bundle_to_dir(pems.res.val, dn, label, w.fs, fault), LAMBDA placed :
        [res |-> placed.res, ev |-> made.ev \o pems.ev \o <<"place">>, fs |-> placed.fs,
         out |-> w.out, gen |-> gen]))))

(***************************************************************************)
(* config.py: loading.  A file is unreadable, holds malformed JSON, or     *)
(* holds a JSON value.                                                     *)
(***************************************************************************)
Unreadable == [t |-> "unreadable"]
Malformed  == [t |-> "malformed"]

read_json_file(file) ==
    IF file = Unreadable THEN Raise("ConfigError", "Unable to read JSON config", "path")
    ELSE IF file = Malformed THEN Raise("ConfigError", "Invalid JSON in config", "path")
    ELSE Ok(file)

ensure_dict_top_level(data) ==
    IF data.t # "dict"
    THEN Raise("ConfigError", "JSON config must be an object at the top level", "path")
    ELSE Ok(data.v)

\* an extraction that also takes the recognized keys beside the blocks
extract_explicit_blocks_and_beside(data) ==
    LET Block(k) == IF Get(data, k, PyNone).t = "dict" THEN data[k].v ELSE EmptyDict
        dnKeys   == {k \in DOMAIN data : k \in Range(DN_KEYS)}
        cfgKeys  == {k \in DOMAIN data : k \in DOMAIN CONFIG_DEFAULT \/ k = "passphrase"}
    IN  [dn  |-> Update([k \in dnKeys |-> data[k]], Block("dn")),
         cfg |-> Update([k \in cfgKeys |-> data[k]], Block("config"))]
extract_explicit_blocks(data) ==
    LET Block(k) == IF Get(data, k, PyNone).t = "dict" THEN data[k].v ELSE EmptyDict
    IN  [dn |-> Block("dn"), cfg |-> Block("config")]

\* a flat split that lets every key that is no DN attribute into the config
extract_flat_config_keep_unknown(data) ==
    LET dnKeys == {k \in DOMAIN data : k \in Range(DN_KEYS)}
    IN  [dn |-> [k \in dnKeys |-> data[k]], cfg |-> [k \in DOMAIN data \ dnKeys |-> data[k]]]
extract_flat_config(data) ==
    LET dnKeys  == {k \in DOMAIN data : k \in Range(DN_KEYS)}
        cfgKeys == {k \in DOMAIN data \ dnKeys : k \in DOMAIN CONFIG_DEFAULT \/ k = "passphrase"}
    IN  [dn |-> [k \in dnKeys |-> data[k]], cfg |-> [k \in cfgKeys |-> data[k]]]

TrueWords  == {<<"1">>, <<"t","r","u","e">>, <<"y","e","s">>, <<"y">>, <<"o","n">>}
FalseWords == {<<"0">>, <<"f","a","l","s","e">>, <<"n","o">>, <<"n">>, <<"o","f","f">>}

\* a coercion that compares the string as it is written
coerce_bool_exact(value) ==
    CASE value.t = "bool" -> Ok(value.v)
      [] value.t \in {"int", "float"} -> Ok(value.v # 0)
      [] value.t = "str" /\ value.v \in TrueWords  -> Ok(TRUE)
      [] value.t = "str" /\ value.v \in FalseWords -> Ok(FALSE)
      [] OTHER -> Raise("ConfigError", "Cannot coerce to bool", value)

coerce_bool(value) ==
    CASE value.t = "bool" -> Ok(value.v)
      [] value.t \in {"int", "float"} -> Ok(value.v # 0)
      [] value.t = "str" /\ PyLower(PyStrip(value.v)) \in TrueWords  -> Ok(TRUE)
      [] value.t = "str" /\ PyLower(PyStrip(value.v)) \in FalseWords -> Ok(FALSE)
      [] OTHER -> Raise("ConfigError", "Cannot coerce to bool", value)

coerce_config_types(cfg) ==
    With(IF "private_key_bits" \in DOMAIN cfg THEN PyIntOf(cfg["private_key_bits"]) ELSE Ok(0),
         LAMBDA bits :
    With(IF "valid_days" \in DOMAIN cfg THEN PyIntOf(cfg["valid_days"]) ELSE Ok(0),
         LAMBDA days :
    With(IF "encrypt_key" \in DOMAIN cfg THEN coerce_bool(cfg["encrypt_key"]) ELSE Ok(FALSE),
         LAMBDA flag :
        IF bits.st = "raise" THEN bits
        ELSE IF days.st = "raise" THEN days
        ELSE IF flag.st = "raise" THEN flag
        ELSE Ok([k \in DOMAIN cfg |->
                   CASE k = "private_key_bits" -> PyInt(bits.val)
                     [] k = "valid_days"       -> PyInt(days.val)
                     [] k = "encrypt_key"      -> PyBool(flag.val)
                     [] OTHER                  -> cfg[k]]))))

load_json_config(file) ==
    With(read_json_file(file), LAMBDA data_raw :
        IF data_raw.st = "raise" THEN data_raw
        ELSE
    With(ensure_dict_top_level(data_raw.val), LAMBDA data :
        IF data.st = "raise" THEN data
        ELSE
    With(IF "dn" \in DOMAIN data.val \/ "config" \in DOMAIN data.val
         THEN extract_explicit_blocks(data.val)
         ELSE extract_flat_config(data.val), LAMBDA split :
    With(coerce_config_types(split.cfg), LAMBDA cfg :
        IF cfg.st = "raise" THEN cfg
        ELSE Ok([dn |-> split.dn, cfg |-> cfg.val])))))

(***************************************************************************)
(* cli.py: config-directory (batch) mode.                                  *)
(***************************************************************************)
\* The characters of the modelled file names, by code point.
CodeOrder == <<"-", ".">> \o DigitChars \o UpperLetters \o <<"_">> \o LowerLetters
Ord(c) == IndexIn(c, CodeOrder)

RECURSIVE StrLess(_, _)
\* s < t on Python strings: the first differing character decides, a prefix is smaller
StrLess(s, t) ==
    IF t = <<>> THEN FALSE
    ELSE IF s = <<>> THEN TRUE
    ELSE IF Head(s) # Head(t) THEN Ord(Head(s)) < Ord(Head(t))
    ELSE StrLess(Tail(s), Tail(t))

RECURSIVE SortedDescending(_)
\* sorted(..., reverse=True): what the batch would walk if it sorted the other way
SortedDescending(names) ==
    IF names = {} THEN <<>>
    ELSE LET greatest == CHOOSE n \in names : \A m \in names \ {n} : StrLess(m, n)
         IN  <<greatest>> \o SortedDescending(names \ {greatest})

RECURSIVE Sorted(_)
\* sorted(paths): the paths of one directory, ascending by name
Sorted(names) ==
    IF names = {} THEN <<>>
    ELSE LET least == CHOOSE x \in names : \A y \in names \ {x} : StrLess(x, y)
         IN  <<least>> \o Sorted(names \ {least})

DotJson == <<".", "j", "s", "o", "n">>
EndsWith(s, suffix) ==
    Len(s) >= Len(suffix) /\ SubSeq(s, Len(s) - Len(suffix) + 1, Len(s)) = suffix

\* a glob that takes every file of the directory
GlobAll(files) == DOMAIN files
\* config_dir.glob("*.json")
GlobJson(files) == {n \in DOMAIN files : EndsWith(n, DotJson)}

\* The body of the try block of one loop iteration.
process_config_dir_item(cfg_path, file, out_dir, cli_passphrase, w, fault) ==
    With(load_json_config(file), LAMBDA loaded :
        IF loaded.st = "raise"
        THEN [res |-> loaded, ev |-> <<>>, fs |-> w.fs, out |-> w.out, gen |-> w.gen]
        ELSE
    With(merge_settings_json(PyDict(loaded.val.dn), PyDict(loaded.val.cfg)), LAMBDA merged :
        IF merged.st = "raise"
        THEN [res |-> merged, ev |-> <<>>, fs |-> w.fs, out |-> w.out, gen |-> w.gen]
        ELSE
    With(IF cli_passphrase # PyNone /\ "passphrase" \notin DOMAIN merged.val.cfg
         THEN Put(merged.val.cfg, "passphrase", cli_passphrase)
         ELSE merged.val.cfg, LAMBDA cfg :
        handle_single_cert(merged.val.dn, cfg, PyStr(cfg_path), out_dir, w, fault))))

\* A config file that does not exist.
Missing == [t |-> "missing"]

\* a config-file mode in which a command-line passphrase replaces the file's
process_config_file_mode_cli_first(file, out_dir, cli_passphrase, w, fault) ==
    LET Fail(r) == [res |-> r, ev |-> <<>>, fs |-> w.fs, out |-> w.out, gen |-> w.gen]
    IN
    IF file = Missing THEN Fail(Raise("ConfigError", "--config is not a file", "config_file"))
    ELSE
    With(load_json_config(file), LAMBDA loaded :
        IF loaded.st = "raise" THEN Fail(loaded)
        ELSE
    With(merge_settings_json(PyDict(loaded.val.dn), PyDict(loaded.val.cfg)), LAMBDA merged :
        IF merged.st = "raise" THEN Fail(merged)
        ELSE
    With(IF cli_passphrase # PyNone
         THEN Put(merged.val.cfg, "passphrase", cli_passphrase)
         ELSE merged.val.cfg, LAMBDA cfg :
        handle_single_cert(merged.val.dn, cfg, PyNone, out_dir, w, fault))))

\* cli.py: config-file mode
process_config_file_mode(file, out_dir, cli_passphrase, w, fault) ==
    LET Fail(r) == [res |-> r, ev |-> <<>>, fs |-> w.fs, out |-> w.out, gen |-> w.gen]
    IN
    IF file = Missing THEN Fail(Raise("ConfigError", "--config is not a file", "config_file"))
    ELSE
    With(load_json_config(file), LAMBDA loaded :
        IF loaded.st = "raise" THEN Fail(loaded)
        ELSE
    With(merge_settings_json(PyDict(loaded.val.dn), PyDict(loaded.val.cfg)), LAMBDA merged :
        IF merged.st = "raise" THEN Fail(merged)
        ELSE
    With(IF cli_passphrase # PyNone /\ "passphrase" \notin DOMAIN merged.val.cfg
         THEN Put(merged.val.cfg, "passphrase", cli_passphrase)
         ELSE merged.val.cfg, LAMBDA cfg :
        handle_single_cert(merged.val.dn, cfg, PyNone, out_dir, w, fault))))
(***************************************************************************)
(* The objects of the process.  A dict object is addressed by its id, so    *)
(* that an assignment cfg[k] = v changes the object the name cfg refers to  *)
(* and every other name of that object with it.  CONFIG_DEFAULT holds its   *)
(* subject_alt_names list by reference; "request" is the config object of   *)
(* the request under way.                                                   *)
(***************************************************************************)
Ref(id) == [t |-> "ref", id |-> id]

InitialHeap ==
    [dicts |-> [CONFIG_DEFAULT |-> [CONFIG_DEFAULT EXCEPT !["subject_alt_names"] =
                                                            Ref("subject_alt_names")],
                request        |-> EmptyDict],
     lists |-> [subject_alt_names |-> <<>>, DN_KEYS |-> DN_KEYS],
     calls |-> 0]

\* cfg = CONFIG_DEFAULT: the name cfg is one more name of the constant
AliasOf(src) == src
\* cfg = dict(CONFIG_DEFAULT): cfg names a new object
NewDictOf(src) == "request"

\* dict(src): the new object holds the values of src, a list of src by reference
dict_copy(h, src) ==
    [id |-> NewDictOf(src), heap |-> [h EXCEPT !.dicts[NewDictOf(src)] = h.dicts[src]]]

\* cfg[k] = v and cfg.update(e) on the object id
setitem(h, id, k, v) == [h EXCEPT !.dicts[id] = Put(@, k, v)]
update(h, id, e) == [h EXCEPT !.dicts[id] = Update(@, e)]

\* cfg["private_key_bits"] = int(cfg["private_key_bits"]);
\* cfg["valid_days"] = int(cfg["valid_days"]); the key type test; validate_dn
coerce_and_check(h, id, dn) ==
    With(PyIntOf(h.dicts[id]["private_key_bits"]), LAMBDA bits :
        IF bits.st = "raise" THEN [res |-> bits, heap |-> h]
        ELSE
    With(setitem(h, id, "private_key_bits", PyInt(bits.val)), LAMBDA h1 :
    With(PyIntOf(h1.dicts[id]["valid_days"]), LAMBDA days :
        IF days.st = "raise" THEN [res |-> days, heap |-> h1]
        ELSE
    With(setitem(h1, id, "valid_days", PyInt(days.val)), LAMBDA h2 :
    With(KeyTypeCheck(h2.dicts[id]), LAMBDA checked :
        IF checked.st = "raise" THEN [res |-> checked, heap |-> h2]
        ELSE IF validate_dn(dn).st = "raise" THEN [res |-> validate_dn(dn), heap |-> h2]
        ELSE [res |-> Ok(id), heap |-> h2])))))

\* merge_settings_json on objects: what it does to the heap, and the id of
\* the config it returns
merge_settings_json_objects(h, json_dn, json_cfg) ==
    With(dict_copy(h, "CONFIG_DEFAULT"), LAMBDA cfg :
    With(IF DOMAIN json_cfg # {} THEN update(cfg.heap, cfg.id, json_cfg) ELSE cfg.heap,
         LAMBDA h1 :
        coerce_and_check(h1, cfg.id, json_dn)))

\* load_json_config followed by merge_settings_json: generate_from_json_file
\* and the body of the loop of process_config_dir_mode, which then sets the
\* passphrase of the command line
config_request_objects(h, file, cli_passphrase) ==
    With(load_json_config(file), LAMBDA loaded :
        IF loaded.st = "raise" THEN [res |-> loaded, heap |-> h]
        ELSE
    With(merge_settings_json_objects(h, loaded.val.dn, loaded.val.cfg), LAMBDA merged :
        IF merged.res.st = "raise" THEN merged
        ELSE IF cli_passphrase # PyNone
                /\ "passphrase" \notin DOMAIN merged.heap.dicts[merged.res.val]
        THEN [res |-> merged.res,
              heap |-> setitem(merged.heap, merged.res.val, "passphrase", cli_passphrase)]
        ELSE merged))

RECURSIVE process_config_dir_mode_objects(_, _, _)
process_config_dir_mode_objects(h, docs, cli_passphrase) ==
    IF docs = <<>> THEN h
    ELSE process_config_dir_mode_objects(config_request_objects(h, Head(docs),
                                                                cli_passphrase).heap,
                                         Tail(docs), cli_passphrase)

\* process_cli_mode on objects
process_cli_mode_objects(h, args) ==
    With([k \in {k \in Range(DN_KEYS) : k \in DOMAIN args /\ args[k] # PyNone} |-> args[k]],
         LAMBDA dn :
    With(dict_copy(h, "CONFIG_DEFAULT"), LAMBDA cfg :
    With({k \in DOMAIN CONFIG_DEFAULT : k \in DOMAIN args /\ args[k] # PyNone}, LAMBDA set :
    With(update(cfg.heap, cfg.id, [k \in set |-> args[k]]), LAMBDA h1 :
    With(IF Get(args, "passphrase", PyNone) # PyNone
         THEN setitem(h1, cfg.id, "passphrase", args["passphrase"]) ELSE h1, LAMBDA h2 :
        coerce_and_check(h2, cfg.id, dn))))))

\* generate_from_dn_and_config on objects: cfg is the object the caller passes
generate_from_dn_and_config_objects(h, dn, id) ==
    IF validate_dn(dn).st = "raise" THEN [res |-> validate_dn(dn), heap |-> h]
    ELSE IF KeyTypeCheck(h.dicts[id]).st = "raise"
    THEN [res |-> KeyTypeCheck(h.dicts[id]), heap |-> h]
    ELSE
    With(IF "private_key_bits" \in DOMAIN h.dicts[id]
         THEN PyIntOf(h.dicts[id]["private_key_bits"]) ELSE Ok(0), LAMBDA bits :
        IF bits.st = "raise" THEN [res |-> bits, heap |-> h]
        ELSE
    With(IF "private_key_bits" \in DOMAIN h.dicts[id]
         THEN setitem(h, id, "private_key_bits", PyInt(bits.val)) ELSE h, LAMBDA h1 :
    With(IF "valid_days" \in DOMAIN h1.dicts[id]
         THEN PyIntOf(h1.dicts[id]["valid_days"]) ELSE Ok(0), LAMBDA days :
        IF days.st = "raise" THEN [res |-> days, heap |-> h1]
        ELSE [res |-> Ok(id),
              heap |-> IF "valid_days" \in DOMAIN h1.dicts[id]
                       THEN setitem(h1, id, "valid_days", PyInt(days.val)) ELSE h1])))
(***************************************************************************)
(* The state of one run of process_config_dir_mode.                        *)
(***************************************************************************)
VARIABLES
    config_dir,   \* [isdir, files]: the directory given, file name -> content
    output_dir,   \* "stdout" or "root"
    passphrase,   \* the --passphrase value, or None
    pc,           \* "call", "loop", "done"
    json_files,   \* the sorted list the loop walks
    idx,          \* the position of the loop in json_files
    errors,       \* the failure counter
    result,       \* what the call returned or raised
    fs,           \* the output root: directory name -> file name -> content
    out,          \* standard output
    err,          \* standard error: one line per failed item
    gen,          \* the number of calls of the key generator so far
    log           \* history: one record per attempted item

(***************************************************************************)
(* The state of the other two models: one call of a function of the        *)
(* library, and concurrent invocations of write_bundle_to_dir.             *)
(***************************************************************************)
VARIABLES
    call,         \* the function called last and its arguments
    ret,          \* what that call returned or raised, and the events it performed
    inv,          \* per invocation: its position in make_cert_subdir and its locals
    heap          \* the objects of the process: the module constants and a request's config

batch == <<config_dir, output_dir, passphrase, pc, json_files, idx, errors, result,
           fs, out, err, gen, log>>
vars == <<config_dir, output_dir, passphrase, pc, json_files, idx, errors, result,
          fs, out, err, gen, log, call, ret, inv, heap>>


(***************************************************************************)
(* The inputs of the batch model.                                          *)
(***************************************************************************)
NamePool == {<<"a">> \o DotJson, <<"a", "-", "b">> \o DotJson, <<"B">> \o DotJson,
             <<"a", ".", "t", "x", "t">>}

DocExplicit(dn, cfg) == PyDict([dn |-> PyDict(dn), config |-> PyDict(cfg)])
CnA == [commonName |-> PyStr(<<"a">>)]

\* {"dn": {"commonName": "a"}, "config": {}}
DocA == DocExplicit(CnA, EmptyDict)
\* {"commonName": " A", "digest_alg": "SHA256", "comment": "x"}
DocFlat == PyDict([commonName |-> PyStr(<<" ", "A">>),
                   digest_alg |-> PyStr(<<"S","H","A","2","5","6">>),
                   comment    |-> PyStr(<<"x">>)])
\* {"dn": {"commonName": "a"}, "config": {"encrypt_key": "yes"}}
DocEnc == DocExplicit(CnA, [encrypt_key |-> PyStr(<<"y","e","s">>)])
\* {"dn": {"commonName": "a"}, "config": {"private_key_type": null}}
DocNull == DocExplicit(CnA, [private_key_type |-> PyNone])

\* {"dn": {"commonName": "b"}, "config": {}}
DocB == DocExplicit([commonName |-> PyStr(<<"b">>)], EmptyDict)

DocSeq == <<DocA, DocFlat, Malformed, DocEnc, DocNull, DocB>>

OldFiles == [f \in {"cert.pem"} |-> [pem |-> "OLD", obj |-> PyNone, password |-> PyNone]]
NoDirs == [n \in {} |-> EmptyDict]
\* an output root that earlier runs used: a and a-2 exist, a-1 does not
UsedDirs == [n \in {<<"a">>, <<"a", "-", "2">>} |-> OldFiles]
\* An entry of the output root that is a regular file and not a directory:
\* Path.exists() is true of it as of a directory.
RegularFile == [f \in {"."} |-> [pem |-> "DATA", obj |-> PyNone, password |-> PyNone]]
IsDir(root, name) == name \in DOMAIN root /\ root[name] # RegularFile
DirsOf(names) == [n \in names |-> OldFiles]
\* the output roots make_cert_subdir is called on
RootPool ==
    {NoDirs, UsedDirs,
     DirsOf({<<"a">>}),
     DirsOf({<<"a">>, <<"a", "-", "1">>}),
     DirsOf({<<"a">>, <<"a", "-", "1">>, <<"a", "-", "2">>, <<"a", "-", "7">>}),
     DirsOf({<<"a", "-", "1">>, <<"b">>}),
     [n \in {<<"a">>, <<"a", "-", "1">>} |-> IF n = <<"a">> THEN OldFiles ELSE RegularFile],
     [n \in {<<"a">>} |-> RegularFile],
     DirsOf({<<"c", "e", "r", "t">>, <<"c", "e", "r", "t", "-", "1">>, <<"a">>})}

\* What the platform does to one placement: nothing, a refused mkdir, a refused
\* open of the second file, a third file cut short.
FaultPool == {"none", "mkdir", "write2", "trunc3"}

Idle == [fn |-> "none"]

InitBatch ==
    /\ \E isdir \in BOOLEAN :
         \E S \in SUBSET NamePool :
           \E pick \in [S -> 1..Len(DocSeq)] :
             /\ Cardinality(S) <= MaxFiles
             /\ isdir \/ S = {}
             /\ \A n \in S : EndsWith(n, DotJson) \/ pick[n] = 1
             /\ config_dir = [isdir |-> isdir, files |-> [n \in S |-> DocSeq[pick[n]]]]
    /\ output_dir \in {"stdout", "root"}
    /\ passphrase \in {PyNone, PyStr(<<"p", "w">>)}
    /\ \E used \in BOOLEAN : fs = IF used THEN UsedDirs ELSE NoDirs
    /\ pc = "call"
    /\ json_files = <<>>
    /\ idx = 0
    /\ errors = 0
    /\ result = Idle
    /\ out = <<>>
    /\ err = <<>>
    /\ gen = 0
    /\ log = <<>>
    /\ call = Idle
    /\ ret = Idle
    /\ inv = <<>>
    /\ heap = InitialHeap

\* process_config_dir_mode up to its loop: the directory test, glob and sort
Start ==
    /\ pc = "call"
    /\ IF ~config_dir.isdir
       THEN /\ result' = Raise("ConfigError", "--config-dir is not a directory", "config_dir")
            /\ pc' = "done"
            /\ UNCHANGED json_files
       ELSE IF Sorted(GlobJson(config_dir.files)) = <<>>
       THEN /\ result' = Raise("ConfigError", "No *.json files found", "config_dir")
            /\ pc' = "done"
            /\ json_files' = <<>>
       ELSE /\ json_files' = Sorted(GlobJson(config_dir.files))
            /\ pc' = "loop"
            /\ UNCHANGED result
    /\ idx' = 1
    /\ errors' = 0
    /\ UNCHANGED <<config_dir, output_dir, passphrase, fs, out, err, gen, log, call, ret, inv, heap>>

\* one iteration of the loop: the try block and its two except clauses
ProcessItem ==
    /\ pc = "loop"
    /\ idx <= Len(json_files)
    /\ \E fault \in FaultPool :
         LET cfg_path == json_files[idx]
         IN
         \E r \in {process_config_dir_item(cfg_path, config_dir.files[cfg_path], output_dir,
                                           passphrase, [fs |-> fs, out |-> out, gen |-> gen],
                                           fault)} :
             /\ fault = "none" \/ ("place" \in Range(r.ev) /\ r.res.st = "raise")
             /\ fs' = r.fs
             /\ out' = r.out
             /\ gen' = r.gen
             /\ errors' = IF r.res.st = "raise" THEN errors + 1 ELSE errors
             /\ err' = IF r.res.st = "raise"
                       THEN Append(err, [path |-> cfg_path, exc |-> r.res.exc,
                                         unexpected |-> ~IsCertToolError(r.res)])
                       ELSE err
             /\ log' = Append(log, [path |-> cfg_path, res |-> r.res, ev |-> r.ev,
                                    before |-> DOMAIN fs,
                                    newdirs |-> DOMAIN r.fs \ DOMAIN fs,
                                    made |-> [d \in DOMAIN r.fs \ DOMAIN fs |-> r.fs[d]],
                                    changed |-> {d \in DOMAIN fs : r.fs[d] # fs[d]},
                                    printed |-> Len(r.out) - Len(out),
                                    errors |-> errors])
    /\ idx' = idx + 1
    /\ UNCHANGED <<config_dir, output_dir, passphrase, pc, json_files, result, call, ret, inv, heap>>

\* a summary that forgives a single failure
SummaryLenient(n) ==
    IF n > 1
    THEN Raise("CertToolError", "config file(s) failed; see error messages above", n)
    ELSE Ok(PyNone)

\* if errors: raise CertToolError(f"{errors} config file(s) failed; ...")
Summary(n) ==
    IF n # 0
    THEN Raise("CertToolError", "config file(s) failed; see error messages above", n)
    ELSE Ok(PyNone)

\* after the loop: the summary error, or the return
Finish ==
    /\ pc = "loop"
    /\ idx > Len(json_files)
    /\ result' = Summary(errors)
    /\ pc' = "done"
    /\ UNCHANGED <<config_dir, output_dir, passphrase, json_files, idx, errors,
                   fs, out, err, gen, log, call, ret, inv, heap>>

Next == Start \/ ProcessItem \/ Finish

Spec == InitBatch /\ [][Next]_vars

(***************************************************************************)
(* Properties of batch mode.                                               *)
(***************************************************************************)
Failed == {i \in 1..Len(log) : log[i].res.st = "raise"}
Walked == pc = "done" /\ config_dir.isdir /\ GlobJson(config_dir.files) # {}

\* C1: process_config_dir_mode attempts every *.json file of the directory
\* exactly once, in lexicographic order of the file names: the items attempted
\* so far are the first Len(log) names of that order, whatever the earlier
\* items did (returned, raised a CertToolError, raised anything else), and
\* when the call ends every *.json file has been attempted.
C1_EveryFileOnceInOrder ==
    /\ \A i \in 1..Len(log) :
          /\ log[i].path \in GlobJson(config_dir.files)
          /\ \A j \in 1..Len(log) : i < j => StrLess(log[i].path, log[j].path)
          /\ \A n \in GlobJson(config_dir.files) :
                StrLess(n, log[i].path) => \E j \in 1..(i - 1) : log[j].path = n
    /\ Walked => {log[i].path : i \in 1..Len(log)} = GlobJson(config_dir.files)
    /\ pc = "loop" => Len(log) = idx - 1

\* three files; the first raises an exception that is no CertToolError, the
\* second a CertToolError, and the third is still attempted and succeeds
C1_Witness ==
    /\ pc = "done"
    /\ Len(log) = 3
    /\ log[1].res.st = "raise" /\ ~IsCertToolError(log[1].res)
    /\ IsCertToolError(log[2].res)
    /\ log[3].res.st = "ok"

\* C2: the call raises the summary error exactly when an item failed, the
\* count it names is the number of failed items, every item that did not fail
\* was generated and written (three files in a directory of its own, or the
\* three sections on standard output), one line of standard error was printed
\* per failed item, and nothing is raised before the last item was attempted.
C2_SummaryCountsFailures ==
    /\ Walked =>
          /\ Len(log) = Cardinality(GlobJson(config_dir.files))
          /\ result.st = "raise" <=> Failed # {}
          /\ result.st = "raise" => result.exc = "CertToolError"
                                     /\ result.arg = Cardinality(Failed)
          /\ Len(err) = Cardinality(Failed)
          /\ \A i \in 1..Len(log) \ Failed :
                /\ SubSeq(log[i].ev, 1, 3) = <<"keygen", "sign_csr", "sign_cert">>
                /\ IF output_dir = "root"
                   THEN \E d \in log[i].newdirs :
                          /\ DOMAIN log[i].made[d] = Range(PemFiles)
                          /\ d \in DOMAIN fs /\ fs[d] = log[i].made[d]
                   ELSE log[i].printed >= 3 /\ Len(out) >= 3
    /\ pc # "done" => result = Idle
    /\ (config_dir.isdir /\ result # Idle /\ GlobJson(config_dir.files) # {})
          => Len(log) = Cardinality(GlobJson(config_dir.files))

\* three configs, one of them malformed: two written, the error reports 1
C2_Witness ==
    /\ pc = "done"
    /\ output_dir = "root"
    /\ Len(log) = 3
    /\ \E i \in 1..3 : /\ config_dir.files[log[i].path] = Malformed
                        /\ Failed = {i}
                        /\ \A j \in 1..3 \ {i} : \E d \in log[j].newdirs :
                                                     DOMAIN fs[d] = Range(PemFiles)
    /\ result.st = "raise" /\ result.arg = 1

\* The name make_cert_subdir is to create for `base` when the names `taken`
\* exist: base itself, or base-k for the least k >= 1 that is free.
LeastFree(taken, base) ==
    IF base \notin taken THEN base
    ELSE LET k == CHOOSE n \in 1..(Cardinality(taken) + 1) :
                    /\ (base \o <<"-">> \o DigitsOf(n)) \notin taken
                    /\ \A j \in 1..(n - 1) : (base \o <<"-">> \o DigitsOf(j)) \in taken
         IN  base \o <<"-">> \o DigitsOf(k)

\* the base name of the i-th item attempted: the slug of its common name
BaseOf(i) == BaseName(load_json_config(config_dir.files[log[i].path]).val.dn,
                      PyStr(log[i].path))

\* the items before the i-th that created a directory for the same base name
EarlierSame(i) == {j \in 1..(i - 1) : log[j].newdirs # {} /\ BaseOf(j) = BaseOf(i)}

\* C3: the directory make_cert_subdir creates is <base> when that name is
\* free and otherwise <base>-k for the least k >= 1 that is free; into a root
\* that was empty, the n-th directory created for one common name is <base>
\* for n = 1 and <base>-(n-1) after that.
C3_LeastFreeSuffix ==
    \A i \in 1..Len(log) :
      log[i].newdirs # {} =>
        /\ log[i].newdirs = {LeastFree(log[i].before, BaseOf(i))}
        /\ log[1].before = {} =>
              log[i].newdirs =
                {IF EarlierSame(i) = {} THEN BaseOf(i)
                 ELSE BaseOf(i) \o <<"-">> \o DigitsOf(Cardinality(EarlierSame(i)))}

\* a and a-2 exist: three generations for the common name a create a-1, a-3, a-4
C3_Witness ==
    /\ Len(log) = 3
    /\ log[1].before = {<<"a">>, <<"a", "-", "2">>}
    /\ \A i \in 1..3 : log[i].res.st = "ok"
    /\ log[1].newdirs = {<<"a", "-", "1">>}
    /\ log[2].newdirs = {<<"a", "-", "3">>}
    /\ log[3].newdirs = {<<"a", "-", "4">>}

\* C5: an item that succeeds in directory mode creates exactly one directory,
\* named <slug> or <slug>-N, holding exactly cert.pem, csr.pem and key.pem:
\* the certificate, the request and the private key of one key pair; it
\* changes no directory that existed and prints nothing.
C5_ThreeFilesOneDirectory ==
    \A i \in 1..Len(log) :
      (output_dir = "root" /\ log[i].res.st = "ok") =>
        /\ Cardinality(log[i].newdirs) = 1
        /\ log[i].changed = {}
        /\ log[i].printed = 0
        /\ \A d \in log[i].newdirs :
              LET files == log[i].made[d]
              IN  /\ DOMAIN files = {"cert.pem", "csr.pem", "key.pem"}
                  /\ files["cert.pem"].pem = "CERTIFICATE"
                  /\ files["csr.pem"].pem = "CERTIFICATE REQUEST"
                  /\ files["key.pem"].pem = "PRIVATE KEY"
                  /\ files["cert.pem"].obj.key = files["key.pem"].obj.id
                  /\ files["csr.pem"].obj.key = files["key.pem"].obj.id
                  /\ \E k \in 0..Cardinality(log[i].before) : d = DirName(BaseOf(i), k)

\* the second of two items that succeed, in a root that held directories
C5_Witness ==
    /\ output_dir = "root"
    /\ Len(log) >= 2
    /\ log[1].before # {}
    /\ log[1].res.st = "ok" /\ log[2].res.st = "ok"
    /\ \E d \in log[2].newdirs : DOMAIN fs[d] = {"cert.pem", "csr.pem", "key.pem"}


(***************************************************************************)
(* C27: directory-mode output never writes into or changes a subdirectory   *)
(* that existed before the call: through any sequence of placements, with   *)
(* equal or different common names, successful or failing, every directory  *)
(* that existed before a call is unchanged by it, so what an earlier call   *)
(* or an earlier run wrote is still there as it was written.                *)
(***************************************************************************)
C27_ExistingUnchanged ==
    /\ \A i \in 1..Len(log) :
          /\ log[i].changed = {}
          /\ log[i].before \subseteq DOMAIN fs
          /\ \A d \in log[i].newdirs : fs[d] = log[i].made[d]
    /\ \A d \in {<<"a">>, <<"a", "-", "2">>} :
          (Len(log) > 0 /\ d \in log[1].before) => fs[d] = OldFiles

\* a used output root; a placement for a, one for b that fails half-way, and
\* another for a: each in a directory of its own
C27_Witness ==
    /\ Len(log) = 3
    /\ log[1].before = {<<"a">>, <<"a", "-", "2">>}
    /\ log[1].newdirs = {<<"a", "-", "1">>} /\ log[1].res.st = "ok"
    /\ log[2].newdirs = {<<"b">>} /\ log[2].res.st = "raise"
    /\ log[3].newdirs = {<<"a", "-", "3">>} /\ log[3].res.st = "ok"
    /\ fs[<<"a">>] = OldFiles
(***************************************************************************)
(* certs.py and cli.py: the programmatic API and CLI-only mode.            *)
(***************************************************************************)
generate_from_dn_and_config(dn, cfg, id) ==
    With(validate_dn(dn), LAMBDA valid :
    With(KeyTypeCheck(cfg), LAMBDA checked :
    With(IF "private_key_bits" \in DOMAIN cfg THEN PyIntOf(cfg["private_key_bits"]) ELSE Ok(0),
         LAMBDA bits :
    With(IF "valid_days" \in DOMAIN cfg THEN PyIntOf(cfg["valid_days"]) ELSE Ok(0),
         LAMBDA days :
        IF valid.st = "raise" THEN Done(valid, <<>>)
        ELSE IF checked.st = "raise" THEN Done(checked, <<>>)
        ELSE IF bits.st = "raise" THEN Done(bits, <<>>)
        ELSE IF days.st = "raise" THEN Done(days, <<>>)
        ELSE
    With([k \in DOMAIN cfg |->
            CASE k = "private_key_bits" -> PyInt(bits.val)
              [] k = "valid_days"       -> PyInt(days.val)
              [] OTHER                  -> cfg[k]], LAMBDA cfg1 :
    With(create_cert_components(dn, cfg1, id), LAMBDA made :
        IF made.res.st = "raise" THEN made
        ELSE
    With(serialize_cert_components(made.res.val, Truthy(Get(cfg1, "encrypt_key", PyNone)),
                                   Get(cfg1, "passphrase", PyNone)), LAMBDA pems :
        Done(pems.res, made.ev \o pems.ev))))))))

\* args: the attributes of the namespace that are set (an option left out is None)
process_cli_mode(args, out_dir, w, fault) ==
    LET Fail(r) == [res |-> r, ev |-> <<>>, fs |-> w.fs, out |-> w.out, gen |-> w.gen]
    IN
    With([k \in {k \in Range(DN_KEYS) : k \in DOMAIN args /\ args[k] # PyNone} |-> args[k]],
         LAMBDA dn :
    With({k \in DOMAIN CONFIG_DEFAULT : k \in DOMAIN args /\ args[k] # PyNone}, LAMBDA set :
    With([k \in DOMAIN CONFIG_DEFAULT |-> IF k \in set THEN args[k] ELSE CONFIG_DEFAULT[k]],
         LAMBDA cfg0 :
    With(IF Get(args, "passphrase", PyNone) # PyNone
         THEN Put(cfg0, "passphrase", args["passphrase"]) ELSE cfg0, LAMBDA cfg1 :
    With(PyIntOf(cfg1["private_key_bits"]), LAMBDA bits :
    With(PyIntOf(cfg1["valid_days"]), LAMBDA days :
        IF bits.st = "raise" THEN Fail(bits)
        ELSE IF days.st = "raise" THEN Fail(days)
        ELSE
    With([cfg1 EXCEPT !["private_key_bits"] = PyInt(bits.val),
                      !["valid_days"] = PyInt(days.val)], LAMBDA cfg :
    With(KeyTypeCheck(cfg), LAMBDA checked :
    With(validate_dn(dn), LAMBDA valid :
        IF checked.st = "raise" THEN Fail(checked)
        ELSE IF valid.st = "raise" THEN Fail(valid)
        ELSE handle_single_cert(dn, cfg, PyNone, out_dir, w, fault))))))))))

(***************************************************************************)
(* cli.py: mode validation and the top-level controller.  `args` is the    *)
(* parsed namespace: an option left out is None (False for a flag).        *)
(***************************************************************************)
any_dn_cli_set(args) == \E key \in Range(DN_KEYS) : Get(args, key, PyNone) # PyNone

any_cfg_cli_set(args) == \E key \in DOMAIN CONFIG_DEFAULT : Get(args, key, PyNone) # PyNone

collect_example_mode_conflicts(args) ==
    (IF Truthy(args.config) THEN <<"--config">> ELSE <<>>)
    \o (IF Truthy(args.config_dir) THEN <<"--config-dir">> ELSE <<>>)
    \o (IF Truthy(args.output_dir) THEN <<"--output-dir">> ELSE <<>>)
    \o (IF any_dn_cli_set(args) THEN <<"DN CLI options">> ELSE <<>>)
    \o (IF any_cfg_cli_set(args) THEN <<"CONFIG CLI options">> ELSE <<>>)

validate_example_mode(args) ==
    IF collect_example_mode_conflicts(args) = <<>> THEN Ok(PyNone)
    ELSE Raise("ConfigError",
               "--generate-example cannot be combined with certificate generation options",
               "conflicts")

\* a standard-mode validation that lets --config and --config-dir through together
validate_standard_mode_both(args) ==
    IF ~(Truthy(args.config) \/ Truthy(args.config_dir)) THEN Ok(PyNone)
    ELSE IF any_dn_cli_set(args) \/ any_cfg_cli_set(args)
    THEN Raise("ConfigError",
               "DN/CONFIG CLI options cannot be used together with --config or --config-dir",
               "args")
    ELSE Ok(PyNone)

validate_standard_mode(args) ==
    IF Truthy(args.config) /\ Truthy(args.config_dir)
    THEN Raise("ConfigError", "--config and --config-dir are mutually exclusive", "args")
    ELSE IF ~(Truthy(args.config) \/ Truthy(args.config_dir)) THEN Ok(PyNone)
    ELSE IF any_dn_cli_set(args) \/ any_cfg_cli_set(args)
    THEN Raise("ConfigError",
               "DN/CONFIG CLI options cannot be used together with --config or --config-dir",
               "args")
    ELSE Ok(PyNone)

validate_mode_constraints(args) ==
    IF Truthy(args.version) THEN Ok(PyNone)
    ELSE IF args.validate_config # PyNone
    THEN IF \/ Truthy(args.generate_example) \/ Truthy(args.config_dir) \/ Truthy(args.config)
            \/ Truthy(args.output_dir) \/ any_dn_cli_set(args) \/ any_cfg_cli_set(args)
         THEN Raise("ConfigError",
                    "--validate-config cannot be combined with other generation options",
                    "args")
         ELSE Ok(PyNone)
    ELSE IF Truthy(args.generate_example) THEN validate_example_mode(args)
    ELSE validate_standard_mode(args)

\* The loop of process_config_dir_mode from its i-th file on; st holds the
\* file system, stdout, the generation counter, the error count and the events.
RECURSIVE config_dir_loop(_, _, _, _, _, _)
config_dir_loop(files, paths, i, out_dir, cli_passphrase, st) ==
    IF i > Len(paths) THEN st
    ELSE With(process_config_dir_item(paths[i], files[paths[i]], out_dir,
                                      cli_passphrase,
                                      [fs |-> st.fs, out |-> st.out, gen |-> st.gen], "none"),
              LAMBDA r :
                config_dir_loop(files, paths, i + 1, out_dir, cli_passphrase,
                                [fs |-> r.fs, out |-> r.out, gen |-> r.gen,
                                 errors |-> IF r.res.st = "raise" THEN st.errors + 1
                                            ELSE st.errors,
                                 ev |-> st.ev \o r.ev]))

\* process_config_dir_mode as one call
process_config_dir_mode(dir, out_dir, cli_passphrase, w) ==
    LET Fail(r) == [res |-> r, ev |-> <<>>, fs |-> w.fs, out |-> w.out, gen |-> w.gen]
    IN
    IF ~dir.isdir
    THEN Fail(Raise("ConfigError", "--config-dir is not a directory", "config_dir"))
    ELSE
    With(Sorted(GlobJson(dir.files)), LAMBDA paths :
        IF paths = <<>>
        THEN Fail(Raise("ConfigError", "No *.json files found", "config_dir"))
        ELSE
    With(config_dir_loop(dir.files, paths, 1, out_dir, cli_passphrase,
                         [fs |-> w.fs, out |-> w.out, gen |-> w.gen, errors |-> 0,
                          ev |-> <<>>]), LAMBDA st :
        [res |-> Summary(st.errors), ev |-> st.ev, fs |-> st.fs, out |-> st.out,
         gen |-> st.gen]))

\* run(args).  `prepared` tells whether prepare_output_dir has made the output
\* root; `fault` is what the platform does to that mkdir.
run(args, w, fault) ==
    LET Stop(r, ev, printed) ==
            [res |-> r, ev |-> ev, fs |-> w.fs, out |-> w.out \o printed, gen |-> w.gen,
             prepared |-> FALSE]
        Line(l) == <<[line |-> l, text |-> PyNone]>>
    IN
    IF Truthy(args.version) THEN Stop(Ok(PyNone), <<"version">>, Line("VERSION"))
    ELSE IF args.validate_config # PyNone
    THEN With(load_json_config(args.validate_config.at), LAMBDA loaded :
             IF loaded.st = "raise" THEN Stop(loaded, <<>>, <<>>)
             ELSE
         With(merge_settings_json(PyDict(loaded.val.dn), PyDict(loaded.val.cfg)),
              LAMBDA merged :
             IF merged.st = "raise" THEN Stop(merged, <<>>, <<>>)
             ELSE Stop(Ok(PyNone), <<"valid">>, Line("Configuration is valid."))))
    ELSE IF args.inspect_cert # PyNone
    THEN IF args.inspect_cert.at = Missing
         THEN Stop(Raise("ConfigError", "Unable to read certificate", "path"), <<>>, <<>>)
         ELSE Stop(Ok(PyNone), <<"inspect">>, Line("Certificate:"))
    ELSE
    With(validate_mode_constraints(args), LAMBDA valid :
        IF valid.st = "raise" THEN Stop(valid, <<>>, <<>>)
        ELSE IF Truthy(args.generate_example)
        THEN Stop(Ok(PyNone), <<"example">>,
                  IF args.example_file = PyNone THEN Line("EXAMPLE") ELSE <<>>)
        ELSE IF args.output_dir # PyNone /\ fault = "mkdir_root"
        THEN Stop(Raise("OutputError", "Unable to create output directory", "path"),
                  <<>>, <<>>)
        ELSE
    With(IF args.output_dir = PyNone THEN "stdout" ELSE "root", LAMBDA out_dir :
    With(IF args.config_dir # PyNone
         THEN process_config_dir_mode(args.config_dir.at, out_dir, args.passphrase, w)
         ELSE IF args.config # PyNone
         THEN process_config_file_mode(args.config.at, out_dir, args.passphrase, w, "none")
         ELSE process_cli_mode(args, out_dir, w, "none"), LAMBDA r :
        [res |-> r.res, ev |-> r.ev, fs |-> r.fs, out |-> r.out, gen |-> r.gen,
         prepared |-> args.output_dir # PyNone])))
(***************************************************************************)
(* The inputs of the call model.                                           *)
(***************************************************************************)
\* DN values: strings (empty, blank, padded, plain) and None
DnValuePool == {PyStr(<<>>), PyStr(<<" ">>), PyStr(<<"\t", " ">>), PyStr(<<" ", "a", " ">>),
                PyStr(<<"a">>), PyNone}
DnKeyPool == {"commonName", "countryName", "nickname"}

\* A spelling of a digest name: letters i with mask[i] in upper case, a dash
\* after every position in dashes.
RECURSIVE Spell(_, _, _, _)
Spell(base, mask, dashes, i) ==
    IF i > Len(base) THEN <<>>
    ELSE <<IF i \in DOMAIN mask /\ mask[i] THEN UpperChar(base[i]) ELSE base[i]>>
         \o (IF i \in dashes THEN <<"-">> ELSE <<>>)
         \o Spell(base, mask, dashes, i + 1)

OtherDigestNames == {<<>>, <<"m","d","5">>, <<"s","h","a","1">>, <<"s","h","a">>,
                     <<"s","h","a","2","5","6","0">>, <<"-","s","h","a","2","5","6">>,
                     <<"s","h","a","2","5","6","-">>, <<"s","h","a"," ","2","5","6">>,
                     <<"s","h","a","_","5","1","2">>}

\* Per config key, the values a caller may supply.
CfgPool ==
    [private_key_bits  |-> <<PyInt(4096), PyStr(<<"1","0","2","4">>), PyStr(<<"x">>)>>,
     valid_days        |-> <<PyInt(30), PyStr(<<" ","7"," ">>)>>,
     private_key_type  |-> <<PyStr(RSA), PyStr(<<"r","s","a">>), PyStr(<<"R","s","A">>),
                             PyStr(<<"E","C">>), PyStr(<<>>), PyStr(<<"R","S","A"," ">>),
                             PyNone>>,
     encrypt_key       |-> <<PyBool(TRUE)>>,
     passphrase        |-> <<PyStr(<<"p","w">>), PyStr(<<>>)>>,
     digest_alg        |-> <<PyStr(<<"S","H","A","2","5","6">>), PyStr(<<"m","d","5">>)>>,
     subject_alt_names |-> <<PyList(<<PyStr(<<"a",".","t">>), PyStr(<<"b",".","t">>)>>)>>]

\* choice[k] = 0 leaves key k out
CfgOf(choice) == [k \in {k \in DOMAIN choice : choice[k] # 0} |-> CfgPool[k][choice[k]]]
CfgChoices == [private_key_bits  : 0..Len(CfgPool.private_key_bits),
               valid_days        : 0..Len(CfgPool.valid_days),
               private_key_type  : 0..Len(CfgPool.private_key_type),
               encrypt_key       : 0..Len(CfgPool.encrypt_key),
               passphrase        : 0..Len(CfgPool.passphrase),
               digest_alg        : 0..Len(CfgPool.digest_alg),
               subject_alt_names : 0..Len(CfgPool.subject_alt_names)]

\* the DN arguments: None, empty, a blank common name, a good one
DnArgSeq == <<PyNone, PyDict(EmptyDict), PyDict([commonName |-> PyStr(<<" ">>)]),
              PyDict([commonName |-> PyStr(<<"a">>), countryName |-> PyStr(<<"U","K">>)])>>

InitApi ==
    /\ call = Idle
    /\ ret = Idle
    /\ config_dir = [isdir |-> FALSE, files |-> EmptyDict]
    /\ output_dir = "stdout"
    /\ passphrase = PyNone
    /\ pc = "done"
    /\ json_files = <<>>
    /\ idx = 0
    /\ errors = 0
    /\ result = Idle
    /\ fs = NoDirs
    /\ out = <<>>
    /\ err = <<>>
    /\ gen = 0
    /\ log = <<>>
    /\ inv = <<>>
    /\ heap = InitialHeap

CallValidateDn ==
    /\ call = Idle
    /\ \E D \in SUBSET DnKeyPool : \E dn \in [D -> DnValuePool] :
         /\ call' = [fn |-> "validate_dn", dn |-> dn]
         /\ ret' = Done(validate_dn(dn), <<>>)
    /\ UNCHANGED batch
    /\ UNCHANGED <<inv, heap>>

CallGetDigest ==
    /\ call = Idle
    /\ \E base \in {sha256, sha384, sha512} : \E mask \in [1..3 -> BOOLEAN] :
         \E dashes \in SUBSET (1..5) : \E other \in OtherDigestNames : \E named \in BOOLEAN :
           LET name == IF named THEN Spell(base, mask, dashes, 1) ELSE other
           IN  /\ Cardinality(dashes) <= MaxDashes
               /\ call' = [fn |-> "get_digest", digest_name |-> name]
               /\ ret' = Done(get_digest(PyStr(name)), <<>>)
    /\ UNCHANGED batch
    /\ UNCHANGED <<inv, heap>>

CallMergeSettingsJson ==
    /\ call = Idle
    /\ \E d \in 1..Len(DnArgSeq) : \E c \in CfgChoices : \E none \in BOOLEAN :
         LET json_cfg == IF none THEN PyNone ELSE PyDict(CfgOf(c))
         IN  /\ none => \A k \in DOMAIN c : c[k] = 0
             /\ call' = [fn |-> "merge_settings_json", json_dn |-> DnArgSeq[d],
                         json_cfg |-> json_cfg]
             /\ ret' = Done(merge_settings_json(DnArgSeq[d], json_cfg), <<>>)
    /\ UNCHANGED batch
    /\ UNCHANGED <<inv, heap>>

CallGenerateFromDnAndConfig ==
    /\ call = Idle
    /\ \E d \in 2..Len(DnArgSeq) : \E c \in CfgChoices :
         /\ call' = [fn |-> "generate_from_dn_and_config", dn |-> DnArgSeq[d].v, cfg |-> CfgOf(c)]
         /\ ret' = generate_from_dn_and_config(DnArgSeq[d].v, CfgOf(c), 1)
    /\ UNCHANGED batch
    /\ UNCHANGED <<inv, heap>>

\* the options of a command line: each is None when left out
ArgsPool == [commonName       : {PyNone, PyStr(<<"a">>)},
             private_key_type : {PyNone, PyStr(<<"r","s","a">>), PyStr(<<"E","C">>)},
             private_key_bits : {PyNone, PyInt(512)},
             encrypt_key      : {PyNone, PyBool(TRUE)},
             passphrase       : {PyNone, PyStr(<<"p","w">>)}]

CallProcessCliMode ==
    /\ call = Idle
    /\ \E args \in ArgsPool : \E o \in {"stdout", "root"} : \E used \in BOOLEAN :
         \E fault \in FaultPool :
           LET w == [fs |-> IF used THEN UsedDirs ELSE NoDirs, out |-> <<>>, gen |-> 0]
           IN
           \E r \in {process_cli_mode(args, o, w, fault)} :
               /\ fault = "none" \/ ("place" \in Range(r.ev) /\ r.res.st = "raise")
               /\ call' = [fn |-> "process_cli_mode", args |-> args, output_dir |-> o, w |-> w]
               /\ ret' = r
    /\ UNCHANGED batch
    /\ UNCHANGED <<inv, heap>>

\* what a caller of handle_single_cert may hold in cfg beside the defaults
EncryptPool == <<PyBool(TRUE), PyBool(FALSE), PyStr(<<"y","e","s">>)>>
PassPool == <<PyStr(<<"p","w">>), PyStr(<<>>), PyNone>>

CallHandleSingleCert ==
    /\ call = Idle
    /\ \E named \in BOOLEAN : \E e \in 0..Len(EncryptPool) : \E p \in 0..Len(PassPool) :
         \E labelled \in BOOLEAN : \E o \in {"stdout", "root"} : \E used \in BOOLEAN :
           \E fault \in FaultPool :
             LET dn == IF named THEN CnA ELSE EmptyDict
                 c0 == IF e = 0 THEN [k \in DOMAIN CONFIG_DEFAULT \ {"encrypt_key"} |->
                                        CONFIG_DEFAULT[k]]
                       ELSE [CONFIG_DEFAULT EXCEPT !["encrypt_key"] = EncryptPool[e]]
                 cfg == IF p = 0 THEN c0 ELSE Put(c0, "passphrase", PassPool[p])
                 label == IF labelled THEN PyStr(<<"a", "-", "b">> \o DotJson) ELSE PyNone
                 w == [fs |-> IF used THEN UsedDirs ELSE NoDirs, out |-> <<>>, gen |-> 0]
             IN
             \E r \in {handle_single_cert(dn, cfg, label, o, w, fault)} :
                 /\ fault = "none" \/ ("place" \in Range(r.ev) /\ r.res.st = "raise")
                 /\ call' = [fn |-> "handle_single_cert", dn |-> dn, cfg |-> cfg,
                             label |-> label, output_dir |-> o, w |-> w]
                 /\ ret' = r
    /\ UNCHANGED batch
    /\ UNCHANGED <<inv, heap>>

\* the arguments of a direct call of a signing step
DigestArgPool == {PyStr(sha256), PyStr(<<"S","H","A","5","1","2">>), PyStr(<<"m","d","5">>),
                  PyStr(<<"s","h","a","-","2","5","6">>), PyStr(<<>>), PyNone, PyInt(256)}
DaysArgPool == {PyInt(30), PyInt(0), PyInt(-1), PyStr(<<"7">>), PyNone}
SanArgPool == {PyNone, PyList(<<>>), PyList(<<PyStr(<<"a",".","t">>)>>),
               PyList(<<PyStr(<<"b",".","t">>), PyStr(<<"a",".","t">>)>>),
               PyList(<<PyInt(1)>>), PyStr(<<"a",".","t">>), PyInt(3)}
KeyArg == generate_key_pair(PyInt(2048), 1).val
SubjectArg == build_x509_name(CnA).val

CallGenerateCsr ==
    /\ call = Idle
    /\ \E digest_alg \in DigestArgPool :
         /\ call' = [fn |-> "generate_csr", digest_alg |-> digest_alg]
         /\ ret' = Done(generate_csr(KeyArg, SubjectArg, digest_alg), <<>>)
    /\ UNCHANGED batch
    /\ UNCHANGED <<inv, heap>>

CallGenerateSelfSignedCert ==
    /\ call = Idle
    /\ \E digest_alg \in DigestArgPool : \E valid_days \in DaysArgPool :
         \E subject_alt_names \in SanArgPool :
           /\ call' = [fn |-> "generate_self_signed_cert", digest_alg |-> digest_alg,
                       valid_days |-> valid_days, subject_alt_names |-> subject_alt_names]
           /\ ret' = Done(generate_self_signed_cert(KeyArg, SubjectArg, digest_alg,
                                                    valid_days, subject_alt_names), <<>>)
    /\ UNCHANGED batch
    /\ UNCHANGED <<inv, heap>>

\* what a config may hold under subject_alt_names: index 0 leaves the key out
SanCfgSeq == <<PyNone, PyList(<<>>), PyList(<<PyStr(<<"a",".","t">>)>>),
              PyList(<<PyStr(<<"b",".","t">>), PyStr(<<"a",".","t">>)>>),
              PyList(<<PyStr(<<"a",".","t">>), PyStr(<<"a",".","t">>)>>)>>

CallCreateCertComponents ==
    /\ call = Idle
    /\ \E n \in 0..Len(SanCfgSeq) : \E bits \in {PyInt(2048), PyInt(512)} :
         \E digest_alg \in {PyStr(sha384), PyStr(<<"m","d","5">>)} :
           LET c0 == [CONFIG_DEFAULT EXCEPT !["private_key_bits"] = bits,
                                            !["digest_alg"] = digest_alg]
               cfg == IF n = 0 THEN [k \in DOMAIN c0 \ {"subject_alt_names"} |-> c0[k]]
                      ELSE [c0 EXCEPT !["subject_alt_names"] = SanCfgSeq[n]]
           IN  /\ call' = [fn |-> "create_cert_components", dn |-> CnA, cfg |-> cfg]
               /\ ret' = create_cert_components(CnA, cfg, 1)
    /\ UNCHANGED batch
    /\ UNCHANGED <<inv, heap>>

\* the dict a caller builds from (key, value) items given in some order
DictOf(items) ==
    [k \in {items[i].key : i \in DOMAIN items} |->
       items[CHOOSE i \in DOMAIN items :
               items[i].key = k /\ \A j \in DOMAIN items : items[j].key = k => j <= i].value]

\* per key, what a DN may hold: index 0 leaves the key out
DnFieldSeq == <<PyStr(<<>>), PyStr(<<"x">>)>>
DnItemKeys == <<"nickname", "emailAddress", "commonName", "organizationalUnitName",
                "organizationName", "localityName", "stateOrProvinceName", "countryName">>

RECURSIVE ItemsOf(_, _)
\* the items of the keys chosen, from position i of DnItemKeys on
ItemsOf(choice, i) ==
    IF i > Len(DnItemKeys) THEN <<>>
    ELSE (IF choice[i] = 0 THEN <<>>
          ELSE <<[key |-> DnItemKeys[i],
                  value |-> IF DnItemKeys[i] = "countryName" /\ choice[i] = 2
                            THEN PyStr(<<"U","K">>) ELSE DnFieldSeq[choice[i]]]>>)
         \o ItemsOf(choice, i + 1)

Reversed(q) == [i \in DOMAIN q |-> q[Len(q) + 1 - i]]

CallBuildX509Name ==
    /\ call = Idle
    /\ \E choice \in [1..Len(DnItemKeys) -> 0..Len(DnFieldSeq)] : \E backwards \in BOOLEAN :
         \E items \in {IF backwards THEN Reversed(ItemsOf(choice, 1))
                       ELSE ItemsOf(choice, 1)} :
           /\ call' = [fn |-> "build_x509_name", items |-> items]
           /\ ret' = Done(build_x509_name(DictOf(items)), <<>>)
    /\ UNCHANGED batch
    /\ UNCHANGED <<inv, heap>>

\* The JSON configs of the passphrase calls: encrypt_key absent, true or
\* false; passphrase absent (index 0), a string, the empty string or null;
\* written with explicit blocks or flat.
JsonPassPool == <<PyStr(<<"j", "s">>), PyStr(<<>>), PyNone>>
CliPassPool == {PyNone, PyStr(<<"p", "w">>), PyStr(<<>>)}
JsonCfgPool ==
    {[k \in (IF e = 0 THEN {} ELSE {"encrypt_key"}) \cup (IF p = 0 THEN {} ELSE {"passphrase"})
        |-> IF k = "encrypt_key" THEN PyBool(e = 1) ELSE JsonPassPool[p]] :
       e \in 0..2, p \in 0..Len(JsonPassPool)}
DocOf(cfg, flat) == IF flat THEN PyDict(Update(CnA, cfg)) ELSE DocExplicit(CnA, cfg)

\* The keys a JSON document of the load_json_config calls may hold, with the
\* value each holds: DN attributes (a string, a number, null), config
\* fields, the passphrase, two keys no table lists, and the block keys.
JsonKeyPool ==
    [commonName   |-> PyStr(<<"a", ".", "b">>),
     emailAddress |-> PyInt(3),
     countryName  |-> PyNone,
     digest_alg   |-> PyStr(sha384),
     valid_days   |-> PyStr(<<"7">>),
     encrypt_key  |-> PyStr(<<"y", "e", "s">>),
     passphrase   |-> PyStr(<<"p", "w">>),
     comment      |-> PyStr(<<"x">>),
     CommonName   |-> PyStr(<<"c">>),
     dn           |-> PyDict(CnA),
     config       |-> PyInt(1)]

\* documents that hold one typed config field with a value of some kind,
\* flat or inside a config block
JsonFieldValues == {PyInt(30), PyStr(<<"1", "2">>), PyStr(<<"a", "b", "c">>), PyStr(<<>>),
                    PyFloat(25), PyBool(TRUE), PyNone, PyList(<<>>), PyDict(EmptyDict)}
JsonFieldDocs ==
    {DocOf([k \in {field} |-> value], flat) :
       field \in {"private_key_bits", "valid_days", "encrypt_key"},
       value \in JsonFieldValues, flat \in BOOLEAN}

\* documents with a dn and/or a config key: each block left out (index 0), a
\* mapping with a key no table lists, or no mapping; beside them any of four
\* top-level keys
DnBlockPool == <<PyDict([commonName |-> PyStr(<<"a">>), nick |-> PyStr(<<"n">>)]),
                 PyStr(<<"a">>), PyNone>>
ConfigBlockPool == <<PyDict([digest_alg |-> PyStr(sha384), note |-> PyInt(1),
                             valid_days |-> PyStr(<<"7">>)]),
                     PyList(<<>>), PyInt(1)>>
BesideKeys == {"commonName", "digest_alg", "passphrase", "comment"}
JsonBlockDocs ==
    {PyDict([k \in (IF d = 0 THEN {} ELSE {"dn"}) \cup (IF c = 0 THEN {} ELSE {"config"}) \cup B
               |-> IF k = "dn" THEN DnBlockPool[d]
                   ELSE IF k = "config" THEN ConfigBlockPool[c]
                   ELSE JsonKeyPool[k]]) :
       d \in 0..Len(DnBlockPool), c \in 0..Len(ConfigBlockPool), B \in SUBSET BesideKeys}
CallLoadJsonConfig ==
    /\ call = Idle
    /\ \E file \in {Unreadable, Malformed, PyList(<<>>)} \cup JsonFieldDocs \cup JsonBlockDocs
                   \cup {PyDict([k \in K |-> JsonKeyPool[k]]) : K \in SUBSET DOMAIN JsonKeyPool} :
         /\ call' = [fn |-> "load_json_config", data |-> file]
         /\ ret' = Done(load_json_config(file), <<>>)
    /\ UNCHANGED batch
    /\ UNCHANGED <<inv, heap>>

\* The values of the _coerce_bool calls: the booleans, numbers, every word
\* of the two tables in three letter cases with and without surrounding
\* whitespace, strings of neither table, null, lists and mappings.
Capitalized(w) == <<UpperChar(Head(w))>> \o Tail(w)
WordSpellings ==
    {l \o c \o r : l \in {<<>>, <<" ">>, <<"\t", " ">>}, r \in {<<>>, <<" ">>, <<"\n">>},
                   c \in UNION {{w, PyUpper(w), Capitalized(w)} : w \in TrueWords \cup FalseWords}}
OtherStrings == {<<>>, <<" ">>, <<"2">>, <<"m","a","y","b","e">>, <<"y","e","s","!">>,
                 <<"o"," ","n">>, <<"t","r","u">>, <<"n","o","n","e">>}
BoolArgPool ==
    {PyBool(TRUE), PyBool(FALSE), PyInt(0), PyInt(1), PyInt(2), PyInt(-1),
     PyFloat(0), PyFloat(5), PyFloat(-15),
     PyNone, PyList(<<>>), PyList(<<PyBool(TRUE)>>), PyDict(EmptyDict), PyDict(CnA)}
      \cup {PyStr(s) : s \in WordSpellings \cup OtherStrings}

CallCoerceBool ==
    /\ call = Idle
    /\ \E value \in BoolArgPool :
         /\ call' = [fn |-> "_coerce_bool", value |-> value]
         /\ ret' = Done(coerce_bool(value), <<>>)
    /\ UNCHANGED batch
    /\ UNCHANGED <<inv, heap>>

\* The common names and labels of the make_cert_subdir calls: index 0 of
\* CommonNamePool leaves the key out of the DN.
CommonNamePool ==
    <<PyNone, PyStr(<<>>), PyStr(<<" ", "\t">>), PyInt(7),
      PyStr(<<"E", "x", ".", "C", "o", "m">>), PyStr(<<" ", "M", "y", " ", "C", "A", " ">>),
      PyStr(<<"*", ".", "x", ".", "y">>), PyStr(<<"a", "/", "b", "\t", "c", "!">>),
      PyStr(<<"_", "a", "-">>), PyStr(<<"!", "?">>), PyStr(<<"-", ".", "_">>)>>
LabelPool ==
    {PyNone, PyStr(<<>>), PyStr(<<"w", "e", "b">>), PyStr(<<"s", "i", "t", "e">> \o DotJson),
     PyStr(<<"M", "y", " ", "S", "i", "t", "e", ".", "J", "S", "O", "N">>),
     PyStr(<<"v", "1", ".", "2">>), PyStr(DotJson), PyStr(<<"a", ".", "b">> \o DotJson),
     PyStr(<<"!", ".", "t", "x", "t">>)}

CallMakeCertSubdir ==
    /\ call = Idle
    /\ \E c \in 0..Len(CommonNamePool) : \E label \in LabelPool : \E fs0 \in RootPool :
       \E fault \in {"none", "mkdir"} :
         LET dn == IF c = 0 THEN EmptyDict ELSE [k \in {"commonName"} |-> CommonNamePool[c]]
         IN  \E r \in {make_cert_subdir(fs0, dn, label, fault)} :
             \E base_name \in {BaseName(dn, label)} :
               /\ call' = [fn |-> "make_cert_subdir", dn |-> dn, label |-> label, fs |-> fs0,
                           fault |-> fault]
               /\ ret' = [res |-> r.res, ev |-> <<>>, fs |-> r.fs,
                          passes |-> IF Exists(fs0, base_name)
                                     THEN LoopPasses(fs0, base_name, 1) ELSE 0]
    /\ UNCHANGED batch
    /\ UNCHANGED <<inv, heap>>

CallProcessConfigFileMode ==
    /\ call = Idle
    /\ \E json_cfg \in JsonCfgPool : \E flat \in BOOLEAN : \E exists \in BOOLEAN :
         \E cli \in CliPassPool : \E o \in {"stdout", "root"} :
           LET file == IF exists THEN DocOf(json_cfg, flat) ELSE Missing
               w == [fs |-> NoDirs, out |-> <<>>, gen |-> 0]
           IN  \E r \in {process_config_file_mode(file, o, cli, w, "none")} :
                 /\ call' = [fn |-> "process_config_file_mode", file |-> file,
                             json_cfg |-> json_cfg, passphrase |-> cli, output_dir |-> o,
                             w |-> w]
                 /\ ret' = r
    /\ UNCHANGED batch
    /\ UNCHANGED <<inv, heap>>

\* one pass of the loop of process_config_dir_mode over a file of the directory
CallProcessConfigDirItem ==
    /\ call = Idle
    /\ \E json_cfg \in JsonCfgPool : \E flat \in BOOLEAN :
         \E cli \in CliPassPool : \E o \in {"stdout", "root"} :
           LET file == DocOf(json_cfg, flat)
               w == [fs |-> NoDirs, out |-> <<>>, gen |-> 0]
           IN  \E r \in {process_config_dir_item(<<"e">> \o DotJson, file, o, cli, w, "none")} :
                 /\ call' = [fn |-> "process_config_dir_mode", file |-> file,
                             json_cfg |-> json_cfg, passphrase |-> cli, output_dir |-> o,
                             w |-> w]
                 /\ ret' = r
    /\ UNCHANGED batch
    /\ UNCHANGED <<inv, heap>>

\* The parsed command lines of the controller calls: every option is given or
\* left out; a DN option may be given as the empty string, the encrypt flag
\* as --no-encrypt-key.
RunArgsPool ==
    [version          : {PyBool(FALSE), PyBool(TRUE)},
     validate_config  : {PyNone, PyPath(DocA)},
     inspect_cert     : {PyNone, PyPath([t |-> "cert"]), PyPath(Missing)},
     generate_example : {PyBool(FALSE), PyBool(TRUE)},
     example_file     : {PyNone, PyPath([t |-> "example"])},
     config           : {PyNone, PyPath(DocEnc)},
     config_dir       : {PyNone, PyPath([isdir |-> TRUE,
                                         files |-> [n \in {<<"a">> \o DotJson} |-> DocA]])},
     output_dir       : {PyNone, PyPath([t |-> "dir"])},
     commonName       : {PyNone, PyStr(<<"a">>)},
     emailAddress     : {PyNone, PyStr(<<>>)},
     digest_alg       : {PyNone, PyStr(sha256)},
     encrypt_key      : {PyNone, PyBool(TRUE), PyBool(FALSE)},
     passphrase       : {PyNone, PyStr(<<"p", "w">>)}]

CallValidateModeConstraints ==
    /\ call = Idle
    /\ \E args \in RunArgsPool :
         /\ call' = [fn |-> "validate_mode_constraints", args |-> args]
         /\ ret' = Done(validate_mode_constraints(args), <<>>)
    /\ UNCHANGED batch
    /\ UNCHANGED <<inv, heap>>

CallRun ==
    /\ call = Idle
    /\ \E args \in RunArgsPool : \E fault \in {"none", "mkdir_root"} :
         LET w == [fs |-> NoDirs, out |-> <<>>, gen |-> 0]
         IN  \E r \in {run(args, w, fault)} :
               /\ fault = "none" \/ (r.res.st = "raise" /\ r.res.exc = "OutputError")
               /\ call' = [fn |-> "run", args |-> args, w |-> w]
               /\ ret' = r
    /\ UNCHANGED batch
    /\ UNCHANGED <<inv, heap>>

\* The characters of the strings slugify is called on: a capital and a small
\* letter, a digit, the three kept marks, whitespace, a dropped mark and a
\* capital without a lower-case form.
SlugAlphabet == {"A", "b", "7", ".", "-", "_", " ", "!", "U+2102"}
SlugInputs == UNION {[1..n -> SlugAlphabet] : n \in 0..MaxSlugLen}

\* slugify(value), and slugify of what it returned
CallSlugify ==
    /\ call = Idle
    /\ \E value \in SlugInputs :
       \E slug \in {slugify(value)} :
         /\ call' = [fn |-> "slugify", value |-> value]
         /\ ret' = [res |-> Ok(slug), ev |-> <<>>, again |-> slugify(slug)]
    /\ UNCHANGED batch
    /\ UNCHANGED <<inv, heap>>

NextApi == \/ CallValidateDn
           \/ CallSlugify
           \/ CallValidateModeConstraints
           \/ CallRun
           \/ CallProcessConfigFileMode
           \/ CallProcessConfigDirItem
           \/ CallMakeCertSubdir
           \/ CallCoerceBool
           \/ CallLoadJsonConfig
           \/ CallBuildX509Name
           \/ CallCreateCertComponents
           \/ CallGenerateCsr
           \/ CallGenerateSelfSignedCert
           \/ CallGetDigest
           \/ CallMergeSettingsJson
           \/ CallGenerateFromDnAndConfig
           \/ CallProcessCliMode
           \/ CallHandleSingleCert

SpecApi == InitApi /\ [][NextApi]_vars

(***************************************************************************)
(* Properties of the library's functions.                                  *)
(***************************************************************************)
\* the DN holds a common name with a character that is not white space
NonBlankCommonName(dn) ==
    /\ "commonName" \in DOMAIN dn
    /\ dn["commonName"].t = "str"
    /\ \E i \in DOMAIN dn["commonName"].v : ~IsSpace(dn["commonName"].v[i])

\* C6: validate_dn raises ConfigError, naming commonName, for every DN that
\* is empty or has no commonName with a character other than white space, and
\* returns for every DN that has one, whatever else the DN holds.
C6_ValidateDnCommonName ==
    call.fn = "validate_dn" =>
      IF NonBlankCommonName(call.dn)
      THEN ret.res = Ok(PyNone)
      ELSE /\ ret.res.st = "raise"
           /\ ret.res.exc = "ConfigError"
           /\ ret.res.arg = "commonName"

\* a padded common name beside an empty country and an unknown key: accepted
C6_Witness ==
    /\ call.fn = "validate_dn"
    /\ DOMAIN call.dn = DnKeyPool
    /\ call.dn["commonName"] = PyStr(<<" ", "a", " ">>)
    /\ call.dn["countryName"] = PyStr(<<>>)
    /\ call.dn["nickname"] = PyNone
    /\ ret.res.st = "ok"

\* the value equals "RSA" when letter case is ignored
IsRsa(x) ==
    /\ x.t = "str"
    /\ Len(x.v) = 3
    /\ \A i \in 1..3 : LowerChar(x.v[i]) = <<"r", "s", "a">>[i]

\* the private_key_type the check of a call reads: None when there is none
KeyTypeRead ==
    CASE call.fn = "merge_settings_json" ->
           IF Truthy(call.json_cfg) /\ "private_key_type" \in DOMAIN call.json_cfg.v
           THEN call.json_cfg.v["private_key_type"] ELSE PyStr(RSA)
      [] call.fn = "generate_from_dn_and_config" -> Get(call.cfg, "private_key_type", PyNone)
      [] call.fn = "process_cli_mode" ->
           IF call.args["private_key_type"] # PyNone
           THEN call.args["private_key_type"] ELSE PyStr(RSA)

\* the call gets as far as its key-type check
KeyTypeReached ==
    CASE call.fn = "merge_settings_json" ->
           LET given == IF Truthy(call.json_cfg) THEN call.json_cfg.v ELSE EmptyDict
           IN  \A k \in {"private_key_bits", "valid_days"} :
                 k \in DOMAIN given => PyIntOf(given[k]).st = "ok"
      [] call.fn = "generate_from_dn_and_config" -> NonBlankCommonName(call.dn)
      [] call.fn = "process_cli_mode" -> TRUE
      [] OTHER -> FALSE

\* the ConfigError of the key-type check, naming the value read
KeyTypeRefused(r) ==
    /\ r.st = "raise"
    /\ r.exc = "ConfigError"
    /\ r.msg = "Unsupported private_key_type; only 'RSA' is supported"
    /\ r.arg = KeyTypeRead

\* C7: the key-type check of merge_settings_json, generate_from_dn_and_config
\* and process_cli_mode passes exactly when private_key_type equals "RSA"
\* with letter case ignored; for every other value, and when the key is absent
\* and no defaults were merged, the call raises the ConfigError that names the
\* value, and no key is generated.
C7_KeyTypeOnlyRsa ==
    KeyTypeReached =>
      IF IsRsa(KeyTypeRead)
      THEN ~KeyTypeRefused(ret.res)
      ELSE KeyTypeRefused(ret.res) /\ "keygen" \notin Range(ret.ev)

\* the name without its dashes, when they all stand between two characters
RECURSIVE Undashed(_)
Undashed(name) ==
    IF name = <<>> THEN <<>>
    ELSE IF Head(name) = "-" THEN Undashed(Tail(name))
    ELSE <<Head(name)>> \o Undashed(Tail(name))

InteriorDashes(name) == name # <<>> /\ Head(name) # "-" /\ name[Len(name)] # "-"

\* C8: get_digest returns the matching algorithm for every spelling of
\* sha256, sha384 and sha512, in any letter case and with or without dashes
\* inside the name, and raises ConfigError for every other name.
C8_DigestAnySpelling ==
    call.fn = "get_digest" =>
      LET plain == [i \in DOMAIN Undashed(call.digest_name) |->
                      LowerChar(Undashed(call.digest_name)[i])]
      IN  IF InteriorDashes(call.digest_name) /\ plain \in {sha256, sha384, sha512}
          THEN ret.res = Ok(CASE plain = sha256 -> "SHA256" [] plain = sha384 -> "SHA384"
                                 [] plain = sha512 -> "SHA512")
          ELSE ret.res.st = "raise" /\ ret.res.exc = "ConfigError"

\* what the caller of merge_settings_json supplied
GivenCfg == IF Truthy(call.json_cfg) THEN call.json_cfg.v ELSE EmptyDict
GivenDn == IF Truthy(call.json_dn) THEN call.json_dn.v ELSE EmptyDict

\* C9: the config merge_settings_json returns holds, for every key the caller
\* supplied, the caller's value (private_key_bits and valid_days as integers),
\* and for every other recognized key its default: sha512, 2048, RSA, false,
\* 365 and no alternative names; the DN it returns is the caller's, no more.
C9_CallerWinsOverDefaults ==
    (call.fn = "merge_settings_json" /\ ret.res.st = "ok") =>
      LET cfg == ret.res.val.cfg
      IN  /\ DOMAIN cfg = DOMAIN GivenCfg \cup {"digest_alg", "private_key_bits",
                                                "private_key_type", "encrypt_key",
                                                "valid_days", "subject_alt_names"}
          /\ \A k \in DOMAIN GivenCfg :
                IF k \in {"private_key_bits", "valid_days"}
                THEN cfg[k].t = "int" /\ cfg[k].v = PyIntOf(GivenCfg[k]).val
                ELSE cfg[k] = GivenCfg[k]
          /\ "digest_alg" \notin DOMAIN GivenCfg => cfg["digest_alg"] = PyStr(sha512)
          /\ "private_key_bits" \notin DOMAIN GivenCfg => cfg["private_key_bits"] = PyInt(2048)
          /\ "private_key_type" \notin DOMAIN GivenCfg => cfg["private_key_type"] = PyStr(RSA)
          /\ "encrypt_key" \notin DOMAIN GivenCfg => cfg["encrypt_key"] = PyBool(FALSE)
          /\ "valid_days" \notin DOMAIN GivenCfg => cfg["valid_days"] = PyInt(365)
          /\ "subject_alt_names" \notin DOMAIN GivenCfg
                => cfg["subject_alt_names"] = PyList(<<>>)
          /\ ret.res.val.dn = GivenDn

\* the caller gives a digest, a key size as text, a key type in lower case
\* and a passphrase, and leaves the rest out
C9_Witness ==
    /\ call.fn = "merge_settings_json"
    /\ ret.res.st = "ok"
    /\ DOMAIN GivenCfg = {"digest_alg", "private_key_bits", "private_key_type", "passphrase"}
    /\ GivenCfg["private_key_bits"] = PyStr(<<"1","0","2","4">>)
    /\ GivenCfg["private_key_type"] = PyStr(<<"r","s","a">>)
    /\ ret.res.val.cfg["private_key_bits"] = PyInt(1024)
    /\ ret.res.val.cfg["valid_days"] = PyInt(365)
    /\ "countryName" \in DOMAIN ret.res.val.dn

\* encrypt_key is true and the passphrase is absent, None or empty
NoPassphrase(cfg) ==
    /\ Truthy(Get(cfg, "encrypt_key", PyNone))
    /\ Get(cfg, "passphrase", PyNone) \in {PyNone, PyStr(<<>>)}

TriedPasswords == {PyStr(<<"p","w">>), PyStr(<<"P","W">>), PyStr(<<"p">>), PyStr(<<>>)}

\* the private key PEM a call produced: the one of the bundle returned, or the
\* key.pem of the directory created
KeyPemsOf ==
    CASE call.fn = "generate_from_dn_and_config" /\ ret.res.st = "ok" ->
           {ret.res.val.private_key_pem}
      [] call.fn = "handle_single_cert" /\ ret.res.st = "ok" /\ call.output_dir = "root" ->
           {ret.fs[d]["key.pem"] : d \in DOMAIN ret.fs \ DOMAIN call.w.fs}
      [] OTHER -> {}

UnsupportedDigest(x) ==
    /\ x.t = "str"
    /\ [i \in DOMAIN x.v |-> LowerChar(x.v[i])] \notin {sha256, sha384, sha512}

\* the certificate builder itself refuses the arguments of the call
BuilderRefuses ==
    \/ call.valid_days.t # "int"
    \/ call.valid_days.v < 0
    \/ call.subject_alt_names.t = "int" /\ call.subject_alt_names.v # 0
    \/ /\ call.subject_alt_names.t = "list"
       /\ \E i \in DOMAIN call.subject_alt_names.v : call.subject_alt_names.v[i].t # "str"

ConfigErrorOfDigest(r) ==
    r.st = "raise" /\ r.exc = "ConfigError" /\ r.msg = "Unsupported digest"

\* C12: an unsupported digest name that reaches generate_csr or
\* generate_self_signed_cert, directly or through create_cert_components,
\* comes out as the ConfigError of get_digest and never as GenerationError;
\* GenerationError is raised only for a failure that is no CertToolError: a
\* digest that is no string, or arguments the builder refuses.
C12_DigestErrorStaysConfigError ==
    /\ call.fn = "generate_csr" =>
          /\ UnsupportedDigest(call.digest_alg) => ConfigErrorOfDigest(ret.res)
          /\ (ret.res.st = "raise" /\ ret.res.exc = "GenerationError")
                => call.digest_alg.t # "str"
    /\ call.fn = "generate_self_signed_cert" =>
          /\ (UnsupportedDigest(call.digest_alg) /\ ~BuilderRefuses)
                => ConfigErrorOfDigest(ret.res)
          /\ (ret.res.st = "raise" /\ ret.res.exc = "GenerationError")
                => (call.digest_alg.t # "str" \/ BuilderRefuses)
    /\ (call.fn = "generate_from_dn_and_config" /\ "keygen" \in Range(ret.ev)
          /\ "digest_alg" \in DOMAIN call.cfg /\ UnsupportedDigest(call.cfg["digest_alg"]))
          => ConfigErrorOfDigest(ret.res)

\* md5 reaches the certificate step with arguments the builder accepts
C12_Witness ==
    /\ call.fn = "generate_self_signed_cert"
    /\ call.digest_alg = PyStr(<<"m","d","5">>)
    /\ call.valid_days = PyInt(30)
    /\ call.subject_alt_names.t = "list" /\ Len(call.subject_alt_names.v) = 2
    /\ ret.res.st = "raise" /\ ret.res.exc = "ConfigError"

SubjectOrder == <<"COUNTRY_NAME", "STATE_OR_PROVINCE_NAME", "LOCALITY_NAME",
                  "ORGANIZATION_NAME", "ORGANIZATIONAL_UNIT_NAME", "COMMON_NAME",
                  "EMAIL_ADDRESS">>
SubjectKeys == <<"countryName", "stateOrProvinceName", "localityName", "organizationName",
                 "organizationalUnitName", "commonName", "emailAddress">>

\* the value the items give key k: that of the last item with the key
ItemValue(k) ==
    LET at == {i \in DOMAIN call.items : call.items[i].key = k}
    IN  IF at = {} THEN PyNone
        ELSE call.items[CHOOSE i \in at : \A j \in at : j <= i].value

\* C14: the subject build_x509_name returns lists its attributes in the order
\* country, state or province, locality, organization, organizational unit,
\* common name, email address, whatever the order of the keys of the DN; it
\* holds an attribute for exactly the recognized keys whose value is present
\* and not empty, with that value, and nothing for any other key.
C14_SubjectFixedOrder ==
    (call.fn = "build_x509_name" /\ ret.res.st = "ok") =>
      LET attrs == ret.res.val
          Pos(oid) == CHOOSE n \in 1..7 : SubjectOrder[n] = oid
      IN  /\ \A i \in 1..Len(attrs) : attrs[i].oid \in Range(SubjectOrder)
          /\ \A i, j \in 1..Len(attrs) : i < j => Pos(attrs[i].oid) < Pos(attrs[j].oid)
          /\ {attrs[i].oid : i \in 1..Len(attrs)} =
                {SubjectOrder[n] : n \in {m \in 1..7 :
                     /\ ItemValue(SubjectKeys[m]).t = "str"
                     /\ ItemValue(SubjectKeys[m]).v # <<>>}}
          /\ \A i \in 1..Len(attrs) :
                /\ attrs[i].value = ItemValue(SubjectKeys[Pos(attrs[i].oid)])
                /\ attrs[i].value.v # <<>>

\* all seven fields and an unknown key, given from the email address backwards
C14_Witness ==
    /\ call.fn = "build_x509_name"
    /\ ret.res.st = "ok"
    /\ Len(call.items) = 8
    /\ call.items[1].key = "nickname" /\ call.items[2].key = "emailAddress"
    /\ call.items[8].key = "countryName"
    /\ \A i \in 2..8 : call.items[i].value.v # <<>>
    /\ Len(ret.res.val) = 7
    /\ ret.res.val[1].oid = "COUNTRY_NAME" /\ ret.res.val[7].oid = "EMAIL_ADDRESS"

(***************************************************************************)
(* C15: for a flat configuration object (neither a dn nor a config key),    *)
(* load_json_config puts every key of the DN attribute set into the DN      *)
(* with its value unchanged, every config field and the passphrase into     *)
(* the config, and drops every other key.                                   *)
(***************************************************************************)
DnAttributeSet == {"countryName", "stateOrProvinceName", "localityName", "organizationName",
                   "organizationalUnitName", "commonName", "emailAddress"}
ConfigFieldSet == {"digest_alg", "private_key_bits", "private_key_type", "encrypt_key",
                   "valid_days", "subject_alt_names"}
CoercedFields == {"private_key_bits", "valid_days", "encrypt_key"}

FlatLoad ==
    /\ call.fn = "load_json_config"
    /\ call.data.t = "dict"
    /\ "dn" \notin DOMAIN call.data.v
    /\ "config" \notin DOMAIN call.data.v
    /\ ret.res.st = "ok"

C15_FlatRouting ==
    FlatLoad =>
        LET data == call.data.v
            dn   == ret.res.val.dn
            cfg  == ret.res.val.cfg
        IN  /\ DOMAIN dn = DOMAIN data \cap DnAttributeSet
            /\ \A k \in DOMAIN dn : dn[k] = data[k]
            /\ DOMAIN cfg = DOMAIN data \cap (ConfigFieldSet \cup {"passphrase"})
            /\ \A k \in DOMAIN cfg \ CoercedFields : cfg[k] = data[k]

C15_Witness ==
    /\ FlatLoad
    /\ {"commonName", "emailAddress", "digest_alg", "passphrase", "comment", "CommonName"}
          \subseteq DOMAIN call.data.v
    /\ DOMAIN ret.res.val.dn = {"commonName", "emailAddress"}
    /\ DOMAIN ret.res.val.cfg = {"digest_alg", "passphrase"}

(***************************************************************************)
(* C16: _coerce_bool returns a boolean as it is, a number by its            *)
(* truthiness, a string by its trimmed lower-case text (1, true, yes, y,    *)
(* on are true; 0, false, no, n, off are false), and raises a ConfigError   *)
(* that names the value for everything else.                                *)
(***************************************************************************)
Yes == {<<"1">>, <<"t","r","u","e">>, <<"y","e","s">>, <<"y">>, <<"o","n">>}
No  == {<<"0">>, <<"f","a","l","s","e">>, <<"n","o">>, <<"n">>, <<"o","f","f">>}
Trimmed(s) == PyLower(PyStrip(s))

C16_CoerceBoolTable ==
    call.fn = "_coerce_bool" =>
        LET value == call.value
            r     == ret.res
        IN  CASE value.t = "bool" -> r = Ok(value.v)
              [] value.t \in {"int", "float"} -> r = Ok(value.v # 0)
              [] value.t = "str" /\ Trimmed(value.v) \in Yes -> r = Ok(TRUE)
              [] value.t = "str" /\ Trimmed(value.v) \in No  -> r = Ok(FALSE)
              [] OTHER -> r.st = "raise" /\ r.exc = "ConfigError" /\ r.arg = value

C16_Witness ==
    /\ call.fn = "_coerce_bool"
    /\ call.value = PyStr(<<"\t", " ", "O", "F", "F", "\n">>)
    /\ ret.res = Ok(FALSE)

(***************************************************************************)
(* C17: directory mode names the subdirectory after the slug of the common  *)
(* name when that is non-blank, else after the slug of the label when one   *)
(* is supplied, else "cert".  The slug is the lower-cased, trimmed text     *)
(* with whitespace turned into '_', every character other than              *)
(* alphanumerics and '.', '-', '_' dropped, '.', '-', '_' stripped from     *)
(* both ends, and "cert" for an empty result.                               *)
(***************************************************************************)
SlugChar(ch) == IF IsSpace(ch) THEN <<"_">>
                ELSE IF IsAlnum(ch) \/ ch \in {".", "-", "_"} THEN <<ch>>
                ELSE <<>>
RECURSIVE SlugChars(_)
SlugChars(s) == IF s = <<>> THEN <<>> ELSE SlugChar(Head(s)) \o SlugChars(Tail(s))
Slug(s) ==
    LET slug == StripSet(SlugChars(PyLower(PyStrip(s))), {".", "-", "_"})
    IN  IF slug = <<>> THEN <<"c", "e", "r", "t">> ELSE slug

\* the text of the common name a call gave, "" when it gave none
GivenCommonName ==
    LET cn == Get(call.dn, "commonName", PyNone)
    IN  IF cn.t = "str" THEN cn.v ELSE IF cn.t = "int" THEN DigitsOf(cn.v) ELSE <<>>
\* the directory a call created in an unused output root
FreshSubdir == call.fn = "make_cert_subdir" /\ call.fs = NoDirs /\ ret.res.st = "ok"

\* the claim as it is worded: the slug of the label itself
C17_NameFromLabel ==
    FreshSubdir =>
        ret.res.val = IF PyStrip(GivenCommonName) # <<>> THEN Slug(GivenCommonName)
                      ELSE IF call.label # PyNone THEN Slug(call.label.v)
                      ELSE <<"c", "e", "r", "t">>

\* C17 as the code has it: the label gives its stem, the name without its
\* last suffix, and the slug is taken of that.
C17_NameFromLabelStem ==
    FreshSubdir =>
        ret.res.val = IF PyStrip(GivenCommonName) # <<>> THEN Slug(GivenCommonName)
                      ELSE IF call.label # PyNone THEN Slug(Stem(call.label.v))
                      ELSE <<"c", "e", "r", "t">>

C17_Witness ==
    /\ FreshSubdir
    /\ PyStrip(GivenCommonName) = <<>>
    /\ call.label = PyStr(<<"M", "y", " ", "S", "i", "t", "e", ".", "J", "S", "O", "N">>)
    /\ ret.res.val = <<"m", "y", "_", "s", "i", "t", "e">>
    /\ DOMAIN ret.fs = {<<"m", "y", "_", "s", "i", "t", "e">>}

(***************************************************************************)
(* C18: batch mode on a directory that holds no *.json file fails with a    *)
(* ConfigError before any item is processed: no certificate is generated,   *)
(* nothing is printed and the output root is as it was.                     *)
(***************************************************************************)
IsJsonName(n) == Len(n) >= 5 /\ SubSeq(n, Len(n) - 4, Len(n)) = <<".", "j", "s", "o", "n">>
NoJsonFiles == config_dir.isdir /\ \A n \in DOMAIN config_dir.files : ~IsJsonName(n)

C18_EmptyBatchIsConfigError ==
    (pc # "call" /\ NoJsonFiles) =>
        /\ pc = "done"
        /\ result.st = "raise" /\ result.exc = "ConfigError"
        /\ result.msg = "No *.json files found"
        /\ log = <<>> /\ errors = 0 /\ err = <<>>
        /\ gen = 0
        /\ out = <<>>
        /\ fs \in {NoDirs, UsedDirs}

C18_Witness ==
    /\ pc = "done"
    /\ NoJsonFiles
    /\ DOMAIN config_dir.files = {<<"a", ".", "t", "x", "t">>}
    /\ output_dir = "root"
    /\ result.st = "raise" /\ result.exc = "ConfigError"
    /\ fs = UsedDirs

(***************************************************************************)
(* C19: in config-file and config-directory mode the key is encrypted       *)
(* under the passphrase of the JSON config whenever the JSON config holds   *)
(* a passphrase key, and under the command-line passphrase only when it     *)
(* holds none; a config with encrypt_key true and no passphrase succeeds    *)
(* and writes its output when a command-line passphrase is given.           *)
(***************************************************************************)
ConfigModeCall ==
    /\ call.fn \in {"process_config_file_mode", "process_config_dir_mode"}
    /\ call.file # Missing
JsonEncrypts == Get(call.json_cfg, "encrypt_key", PyBool(FALSE)) = PyBool(TRUE)
\* the private key a config-mode call put out: key.pem, or the printed key
ConfigModeKeys ==
    IF ret.res.st # "ok" THEN {}
    ELSE IF call.output_dir = "root" THEN {ret.fs[d]["key.pem"] : d \in DOMAIN ret.fs}
    ELSE {ret.out[i].text : i \in {i \in DOMAIN ret.out : ret.out[i].line = "# Private Key (PEM)"}}

C19_JsonPassphraseFirst ==
    (ConfigModeCall /\ JsonEncrypts) =>
        IF "passphrase" \in DOMAIN call.json_cfg
        THEN /\ \A key \in ConfigModeKeys :
                  /\ load_pem_private_key(key, call.json_cfg["passphrase"]).st = "ok"
                  /\ call.passphrase # call.json_cfg["passphrase"]
                       => load_pem_private_key(key, call.passphrase).st = "raise"
             /\ call.json_cfg["passphrase"] \in {PyNone, PyStr(<<>>)}
                  => ret.res.st = "raise" /\ ret.res.exc = "ConfigError"
        ELSE /\ \A key \in ConfigModeKeys :
                  load_pem_private_key(key, call.passphrase).st = "ok"
             /\ call.passphrase \notin {PyNone, PyStr(<<>>)}
                  => /\ ret.res.st = "ok"
                     /\ Cardinality(ConfigModeKeys) = 1
                     /\ call.output_dir = "root"
                          => \E d \in DOMAIN ret.fs :
                               DOMAIN ret.fs[d] = {"cert.pem", "csr.pem", "key.pem"}

\* the test's case: encrypt_key true, no passphrase in the file, one on the
\* command line, output into a directory
C19_Witness ==
    /\ ConfigModeCall /\ JsonEncrypts
    /\ call.fn = "process_config_file_mode"
    /\ "passphrase" \notin DOMAIN call.json_cfg
    /\ call.passphrase = PyStr(<<"p", "w">>)
    /\ call.output_dir = "root"
    /\ ret.res.st = "ok"
    /\ \E d \in DOMAIN ret.fs : ret.fs[d]["key.pem"].password = PyStr(<<"p", "w">>)

(***************************************************************************)
(* C20: mode selection is exclusive.  validate_mode_constraints raises      *)
(* ConfigError when --config and --config-dir are both given, when a DN or  *)
(* CONFIG option comes with --config or --config-dir, and when              *)
(* --generate-example comes with --config, --config-dir, --output-dir or a  *)
(* DN or CONFIG option; run on such a command line generates nothing and    *)
(* writes no output.                                                        *)
(***************************************************************************)
Given(option) == option \in DOMAIN call.args /\ call.args[option] # PyNone
DnOrConfigOption == \E option \in DnAttributeSet \cup ConfigFieldSet : Given(option)
ConflictingModes ==
    \/ Given("config") /\ Given("config_dir")
    \/ (Given("config") \/ Given("config_dir")) /\ DnOrConfigOption
    \/ /\ call.args.generate_example = PyBool(TRUE)
       /\ Given("config") \/ Given("config_dir") \/ Given("output_dir") \/ DnOrConfigOption

\* nothing was generated and nothing was put out: no pipeline step ran, the
\* output root was neither made nor written to, no PEM and no example was printed
NothingGenerated ==
    /\ ret.gen = 0
    /\ Range(ret.ev) \cap {"keygen", "sign_csr", "sign_cert", "encode_key", "encode_csr",
                           "encode_cert", "print", "place", "example"} = {}
    /\ ret.fs = call.w.fs
    /\ ~ret.prepared
    /\ \A i \in DOMAIN ret.out : ret.out[i].line \in {"VERSION", "Configuration is valid.",
                                                      "Certificate:"}

CryptoSteps == {"keygen", "sign_csr", "sign_cert"}
EndsInConfigError == call.fn # "none" /\ ret.res.st = "raise" /\ ret.res.exc = "ConfigError"

C21_ConfigErrorBeforeCrypto ==
    EndsInConfigError => Range(ret.ev) \cap CryptoSteps = {}

\* the two kinds of the four that are checked ahead of the pipeline
C21_DnAndKeyTypeBeforeCrypto ==
    (EndsInConfigError
       /\ ret.res.msg \in {"DN is missing 'commonName'",
                           "DN is empty. You must supply DN attributes (at least 'commonName')",
                           "Unsupported private_key_type; only 'RSA' is supported"})
        => Range(ret.ev) \cap CryptoSteps = {}

(***************************************************************************)
(* C23: with an output directory, handle_single_cert makes the              *)
(* per-certificate subdirectory only after generation and serialization     *)
(* have succeeded: a request that fails with ConfigError or                 *)
(* GenerationError leaves the output root as it was, in single mode and     *)
(* for a failed item of a batch.                                            *)
(***************************************************************************)
PipelineCalls == {"handle_single_cert", "process_cli_mode", "process_config_file_mode",
                  "process_config_dir_mode", "run"}
PemsReady == <<"keygen", "sign_csr", "sign_cert", "encode_key", "encode_csr", "encode_cert">>

C23_SubdirAfterPems ==
    call.fn \in PipelineCalls =>
        /\ (ret.res.st = "raise" /\ ret.res.exc \in {"ConfigError", "GenerationError"})
              => ret.fs = call.w.fs
        /\ \A k \in DOMAIN ret.ev :
              ret.ev[k] = "place" => k > 6 /\ SubSeq(ret.ev, k - 6, k - 1) = PemsReady
        /\ ret.fs # call.w.fs => "place" \in Range(ret.ev)

\* an item of a batch whose certificate was signed and whose serialization
\* was refused: nothing under the output root
C23_Witness ==
    /\ call.fn = "process_config_dir_mode"
    /\ call.output_dir = "root"
    /\ ret.res.st = "raise" /\ ret.res.exc = "ConfigError"
    /\ "sign_cert" \in Range(ret.ev)
    /\ ret.fs = call.w.fs

(***************************************************************************)
(* C24: load_json_config fails only with ConfigError: an unreadable file,   *)
(* malformed JSON, a top level that is no mapping and an invalid value of   *)
(* a known field each raise ConfigError and no exception of another kind.   *)
(***************************************************************************)
C24_LoadFailsOnlyWithConfigError ==
    (call.fn = "load_json_config" /\ ret.res.st = "raise") => ret.res.exc = "ConfigError"

\* the failures that are reported as the claim says: those of reading,
\* parsing, the top-level test and the boolean coercion
C24_ReadParseShapeBool ==
    (call.fn = "load_json_config" /\ ret.res.st = "raise"
       /\ ret.res.msg \in {"Unable to read JSON config", "Invalid JSON in config",
                           "JSON config must be an object at the top level",
                           "Cannot coerce to bool"})
        => ret.res.exc = "ConfigError"

(***************************************************************************)
(* C25: --validate-config cannot be combined with other generation options: *)
(* run with validate_config and any of --generate-example, --config,        *)
(* --config-dir, --output-dir or a DN or CONFIG option fails with           *)
(* ConfigError and does not report the file valid.  (--version, which wins  *)
(* over every mode, is left out.)                                           *)
(***************************************************************************)
ValidateConfigCombined ==
    /\ call.fn = "run"
    /\ call.args.version = PyBool(FALSE)
    /\ Given("validate_config")
    /\ \/ call.args.generate_example = PyBool(TRUE)
       \/ Given("config") \/ Given("config_dir") \/ Given("output_dir")
       \/ DnOrConfigOption

C25_ValidateConfigAlone ==
    ValidateConfigCombined =>
        /\ ret.res.st = "raise" /\ ret.res.exc = "ConfigError"
        /\ "valid" \notin Range(ret.ev)

(***************************************************************************)
(* C26: for a configuration object with a dn and/or a config key,           *)
(* load_json_config takes the DN and the config from those sub-mappings     *)
(* alone, unrecognized keys inside them included and unchanged; no other    *)
(* top-level key contributes, and a block that is no mapping gives an       *)
(* empty map.                                                               *)
(***************************************************************************)
BlockLoad ==
    /\ call.fn = "load_json_config"
    /\ call.data.t = "dict"
    /\ "dn" \in DOMAIN call.data.v \/ "config" \in DOMAIN call.data.v
    /\ ret.res.st = "ok"
\* the sub-mapping under a key of the document, empty when there is none
BlockOf(k) ==
    IF k \in DOMAIN call.data.v /\ call.data.v[k].t = "dict" THEN call.data.v[k].v
    ELSE [j \in {} |-> PyNone]

C26_BlocksOnly ==
    BlockLoad =>
        /\ ret.res.val.dn = BlockOf("dn")
        /\ DOMAIN ret.res.val.cfg = DOMAIN BlockOf("config")
        /\ \A k \in DOMAIN ret.res.val.cfg \ CoercedFields :
              ret.res.val.cfg[k] = BlockOf("config")[k]

\* a dn block with an unrecognized key, a config that is no mapping, and a
\* common name and a digest beside them
C26_Witness ==
    /\ BlockLoad
    /\ {"dn", "config", "commonName", "digest_alg"} \subseteq DOMAIN call.data.v
    /\ call.data.v["config"].t # "dict"
    /\ DOMAIN ret.res.val.dn = {"commonName", "nick"}
    /\ ret.res.val.dn["commonName"] # call.data.v["commonName"]
    /\ DOMAIN ret.res.val.cfg = {}

(***************************************************************************)
(* One process that calls the library several times: what the calls do to   *)
(* the objects of the process.                                              *)
(***************************************************************************)
\* the configs a JSON file or a caller supplies
HeapCfgPool ==
    {EmptyDict,
     [digest_alg |-> PyStr(sha256)],
     [subject_alt_names |-> PyList(<<PyStr(<<"a", ".", "t">>)>>)],
     [private_key_bits |-> PyStr(<<"4", "0", "9", "6">>), valid_days |-> PyStr(<<"7">>)],
     [valid_days |-> PyStr(<<"a", "b", "c">>), private_key_bits |-> PyInt(3072)],
     [private_key_type |-> PyStr(<<"E", "C">>), encrypt_key |-> PyBool(TRUE)]}
HeapDnPool == {CnA, EmptyDict}
HeapDocPool == {DocExplicit(dn, cfg) : dn \in {CnA}, cfg \in HeapCfgPool} \cup {Malformed}

HeapStep(fn, r) ==
    /\ heap.calls < MaxCalls
    /\ heap' = [r.heap EXCEPT !.calls = heap.calls + 1]
    /\ call' = fn
    /\ ret' = Done(r.res, <<>>)
    /\ UNCHANGED batch
    /\ UNCHANGED inv

\* load_json_config builds its two dicts from the file alone
HeapLoadJsonConfig ==
    \E file \in HeapDocPool :
      HeapStep([fn |-> "load_json_config"], [res |-> load_json_config(file), heap |-> heap])

HeapMergeSettingsJson ==
    \E json_dn \in HeapDnPool : \E json_cfg \in HeapCfgPool :
      HeapStep([fn |-> "merge_settings_json"],
               merge_settings_json_objects(heap, json_dn, json_cfg))

HeapProcessCliMode ==
    \E args \in ArgsPool :
      HeapStep([fn |-> "process_cli_mode"], process_cli_mode_objects(heap, args))

HeapProcessConfigDirMode ==
    \E first, second \in HeapDocPool : \E cli \in {PyNone, PyStr(<<"p", "w">>)} :
      HeapStep([fn |-> "process_config_dir_mode"],
               [res |-> Ok(PyNone),
                heap |-> process_config_dir_mode_objects(heap, <<first, second>>, cli)])

HeapGenerateFromJsonFile ==
    \E file \in HeapDocPool :
      HeapStep([fn |-> "generate_from_json_file"], config_request_objects(heap, file, PyNone))

\* the caller passes the config of its last request, or the constant itself
HeapGenerateFromDnAndConfig ==
    \E dn \in HeapDnPool : \E id \in {"request", "CONFIG_DEFAULT"} :
      HeapStep([fn |-> "generate_from_dn_and_config", cfg |-> id],
               generate_from_dn_and_config_objects(heap, dn, id))

NextHeap == \/ HeapLoadJsonConfig
            \/ HeapMergeSettingsJson
            \/ HeapProcessCliMode
            \/ HeapProcessConfigDirMode
            \/ HeapGenerateFromJsonFile
            \/ HeapGenerateFromDnAndConfig

SpecHeap == InitApi /\ [][NextHeap]_vars

(***************************************************************************)
(* C28: after any sequence of load_json_config, merge_settings_json,        *)
(* process_cli_mode, process_config_dir_mode and generate_from_* calls,     *)
(* CONFIG_DEFAULT, the subject_alt_names list it shares with every merged   *)
(* config, and DN_KEYS hold their initial values.                           *)
(***************************************************************************)
C28_ConstantsKeepTheirValues ==
    /\ heap.dicts["CONFIG_DEFAULT"] =
          [digest_alg        |-> PyStr(<<"s", "h", "a", "5", "1", "2">>),
           private_key_bits  |-> PyInt(2048),
           private_key_type  |-> PyStr(<<"R", "S", "A">>),
           encrypt_key       |-> PyBool(FALSE),
           valid_days        |-> PyInt(365),
           subject_alt_names |-> Ref("subject_alt_names")]
    /\ heap.lists["subject_alt_names"] = <<>>
    /\ heap.lists["DN_KEYS"] = <<"countryName", "stateOrProvinceName", "localityName",
                                 "organizationName", "organizationalUnitName", "commonName",
                                 "emailAddress">>

\* three calls: the last request's config differs from the defaults and
\* still shares their list, and the last call was handed the constant itself
C28_Witness ==
    /\ heap.calls = 3
    /\ call.fn = "generate_from_dn_and_config" /\ call.cfg = "CONFIG_DEFAULT"
    /\ ret.res.st = "ok"
    /\ Get(heap.dicts["request"], "private_key_bits", PyNone) = PyInt(4096)
    /\ Get(heap.dicts["request"], "subject_alt_names", PyNone) = Ref("subject_alt_names")

(***************************************************************************)
(* C29: make_cert_subdir ends on every finite output root: with m entries   *)
(* named <base>-k the suffix loop makes at most m + 1 passes, and then the  *)
(* call returns a directory it created itself or raises OutputError.        *)
(***************************************************************************)
MakeCertSubdirCall == call # Idle /\ call.fn = "make_cert_subdir"
SubdirBase == BaseName(call.dn, call.label)
\* n is f"{base}-{counter}" for a counter >= 1
HasSuffixForm(n, base) ==
    /\ Len(n) > Len(base) + 1
    /\ SubSeq(n, 1, Len(base) + 1) = base \o <<"-">>
    /\ \A i \in (Len(base) + 2)..Len(n) : n[i] \in {DigitChars[d] : d \in DOMAIN DigitChars}
    /\ n[Len(base) + 2] # "0"
SuffixedEntries == {n \in DOMAIN call.fs : HasSuffixForm(n, SubdirBase)}
SuffixedDirs == {n \in SuffixedEntries : IsDir(call.fs, n)}
\* the call created the directory it returns and touched nothing else, or it
\* raised OutputError and the root is as it was
CreatedOrOutputError ==
    IF ret.res.st = "ok"
    THEN /\ ret.res.val \notin DOMAIN call.fs
         /\ DOMAIN ret.fs = DOMAIN call.fs \cup {ret.res.val}
         /\ ret.fs[ret.res.val] = EmptyDict
         /\ \A n \in DOMAIN call.fs : ret.fs[n] = call.fs[n]
         /\ ret.res.val = DirName(SubdirBase, ret.passes)
    ELSE /\ ret.res.exc = "OutputError"
         /\ ret.fs = call.fs

\* the claim as it is worded: m counts the directories named <base>-k
C29_PassesBoundedByDirs ==
    MakeCertSubdirCall =>
        /\ ret.passes <= Cardinality(SuffixedDirs) + 1
        /\ CreatedOrOutputError

\* C29 as the code has it: candidate.exists() is true of every entry, so m
\* counts the entries named <base>-k, regular files included.
C29_PassesBoundedByEntries ==
    MakeCertSubdirCall =>
        /\ ret.passes <= Cardinality(SuffixedEntries) + 1
        /\ CreatedOrOutputError

\* a, a-1, a-2 and a-7 exist: three passes, a-3 is created
C29_Witness ==
    /\ MakeCertSubdirCall
    /\ DOMAIN call.fs = {<<"a">>, <<"a", "-", "1">>, <<"a", "-", "2">>, <<"a", "-", "7">>}
    /\ ret.passes = 3
    /\ ret.res.st = "ok"
    /\ ret.res.val = <<"a", "-", "3">>

(***************************************************************************)
(* C30: for every input string slugify returns a non-empty string of        *)
(* lower-case alphanumerics and '.', '-', '_' that neither starts nor ends  *)
(* with '.', '-' or '_', and slugify(slugify(x)) = slugify(x).              *)
(***************************************************************************)
SlugifyCall == call # Idle /\ call.fn = "slugify"
SlugMarks == {".", "-", "_"}
\* non-empty, no mark at either end, and a fixed point of slugify
SlugEdgesAndFixedPoint ==
    /\ ret.res.val # <<>>
    /\ Head(ret.res.val) \notin SlugMarks
    /\ ret.res.val[Len(ret.res.val)] \notin SlugMarks
    /\ ret.again = ret.res.val

C30_LowerCaseSlugFixedPoint ==
    SlugifyCall =>
        /\ SlugEdgesAndFixedPoint
        /\ \A i \in DOMAIN ret.res.val :
             \/ IsAlnum(ret.res.val[i]) /\ ~IsUpper(ret.res.val[i])
             \/ ret.res.val[i] \in SlugMarks

\* what holds of every input: the characters are alphanumerics or marks, and
\* an upper-case one among them is a capital that has no lower-case form
C30_SlugFixedPointUpToCase ==
    SlugifyCall =>
        /\ SlugEdgesAndFixedPoint
        /\ \A i \in DOMAIN ret.res.val :
             \/ IsAlnum(ret.res.val[i])
                  /\ (IsUpper(ret.res.val[i]) => ret.res.val[i] \in CapitalsWithoutLower)
             \/ ret.res.val[i] \in SlugMarks

(***************************************************************************)
(* Concurrent invocations of write_bundle_to_dir on one output root, each  *)
(* a process of its own: the existence test, the mkdir and each            *)
(* write_bytes are separate system calls, and the calls of different       *)
(* invocations interleave in every order.                                  *)
(***************************************************************************)
Invocations == 1..NumInvocations

\* common names with one slug
RaceDnPool == {CnA, [commonName |-> PyStr(<<" ", "A">>)]}

\* the bundle invocation i holds: made of its own key pair
BundleOf(i, dn) ==
    serialize_cert_components(create_cert_components(dn, CONFIG_DEFAULT, i).res.val,
                              FALSE, PyNone).res.val

InitRace ==
    /\ \E dns \in [Invocations -> RaceDnPool] :
         inv = [i \in Invocations |->
                  [pc |-> "name", dn |-> dns[i], bundle |-> BundleOf(i, dns[i]),
                   base_name |-> <<>>, counter |-> 0, candidate |-> <<>>,
                   subdir |-> <<>>, n |-> 1, res |-> Idle]]
    /\ \E used \in BOOLEAN : fs = IF used THEN UsedDirs ELSE NoDirs
    /\ heap = InitialHeap
    /\ call = Idle
    /\ ret = Idle
    /\ config_dir = [isdir |-> FALSE, files |-> EmptyDict]
    /\ output_dir = "root"
    /\ passphrase = PyNone
    /\ pc = "done"
    /\ json_files = <<>>
    /\ idx = 0
    /\ errors = 0
    /\ result = Idle
    /\ out = <<>>
    /\ err = <<>>
    /\ gen = 0
    /\ log = <<>>

RaceFrame == UNCHANGED <<config_dir, output_dir, passphrase, pc, json_files, idx, errors,
                         result, out, err, gen, log, call, ret, heap>>

\* make_cert_subdir, lines 464-472: the base name and the first candidate
RaceName(i) ==
    /\ inv[i].pc = "name"
    /\ \E base_name \in {BaseName(inv[i].dn, PyNone)} :
         inv' = [inv EXCEPT ![i].pc = "exists", ![i].base_name = base_name,
                            ![i].candidate = base_name]
    /\ UNCHANGED fs
    /\ RaceFrame

\* candidate.exists(), lines 473 and 484: on to mkdir, or to the next suffix
RaceExists(i) ==
    /\ inv[i].pc = "exists"
    /\ inv' = IF Exists(fs, inv[i].candidate)
              THEN [inv EXCEPT ![i].counter = @ + 1,
                               ![i].candidate = DirName(inv[i].base_name,
                                                        inv[i].counter + 1)]
              ELSE [inv EXCEPT ![i].pc = "mkdir"]
    /\ UNCHANGED fs
    /\ RaceFrame

\* candidate.mkdir(...), lines 475 and 486: the directory, or OutputError
RaceMkdir(i) ==
    /\ inv[i].pc = "mkdir"
    /\ \E made \in {candidate_mkdir(fs, inv[i].candidate, "none")} :
         /\ fs' = made.fs
         /\ inv' = IF made.res.st = "raise"
                   THEN [inv EXCEPT ![i].pc = "done", ![i].res = made.res]
                   ELSE [inv EXCEPT ![i].pc = "write", ![i].subdir = made.res.val]
    /\ RaceFrame

\* write_bundle_to_dir, lines 546-548: the next write_bytes
RaceWrite(i) ==
    /\ inv[i].pc = "write"
    /\ LET data == <<inv[i].bundle.certificate_pem, inv[i].bundle.csr_pem,
                     inv[i].bundle.private_key_pem>>
       IN  fs' = [fs EXCEPT ![inv[i].subdir] = Put(@, PemFiles[inv[i].n], data[inv[i].n])]
    /\ inv' = IF inv[i].n = Len(PemFiles)
              THEN [inv EXCEPT ![i].pc = "done", ![i].res = Ok(PyNone)]
              ELSE [inv EXCEPT ![i].n = @ + 1]
    /\ RaceFrame

NextRace == \E i \in Invocations : RaceName(i) \/ RaceExists(i) \/ RaceMkdir(i) \/ RaceWrite(i)

SpecRace == InitRace /\ [][NextRace]_vars

\* the key pair a file was made of
KeyOf(file) == IF file.pem = "PRIVATE KEY" THEN file.obj.id ELSE file.obj.key

\* C4: of the invocations that compute one base name, no two are returned the
\* same subdirectory by make_cert_subdir, however their steps interleave: a
\* candidate is created by at most one of them, the other's mkdir is refused,
\* and every file in a directory an invocation was returned is its own.
C4_ExclusiveCreation ==
    \A i \in DOMAIN inv :
      inv[i].subdir # <<>> =>
        /\ \A j \in DOMAIN inv \ {i} : inv[j].subdir # inv[i].subdir
        /\ inv[i].subdir \in DOMAIN fs
        /\ \A f \in DOMAIN fs[inv[i].subdir] : KeyOf(fs[inv[i].subdir][f]) = i

\* both invocations found the same candidate free; one created it and wrote
\* its three files, the mkdir of the other was refused
C4_Witness ==
    \E i, j \in DOMAIN inv :
      /\ i # j
      /\ inv[i].candidate = inv[j].candidate
      /\ inv[i].pc = "done" /\ inv[i].res.st = "ok"
      /\ DOMAIN fs[inv[i].subdir] = Range(PemFiles)
      /\ inv[j].pc = "done" /\ inv[j].res.st = "raise" /\ inv[j].res.exc = "OutputError"
      /\ inv[j].subdir = <<>>

(***************************************************************************)
(* C22: an invocation whose exclusive mkdir of a candidate is refused       *)
(* because another invocation made that candidate after the existence test  *)
(* goes on to the next suffix: every invocation ends with a directory it    *)
(* created itself, none ends with an error.  (The platform refuses no       *)
(* mkdir here for any other reason.)                                        *)
(***************************************************************************)
C22_LostRaceRetries ==
    \A i \in DOMAIN inv :
      inv[i].pc = "done" =>
        /\ inv[i].res.st = "ok"
        /\ inv[i].subdir \in DOMAIN fs
        /\ \A f \in DOMAIN fs[inv[i].subdir] : KeyOf(fs[inv[i].subdir][f]) = i

====
